---- MODULE Spec2Model ----
(***************************************************************************)
(* A model of the chain indexer of moon-pixelmap-backend-pg:               *)
(*   - the RPC provider pool (utils/rpcProvider.js): executeWithRetry,     *)
(*     switchToNextProvider, forceProviderSwitch, getProviderStats;        *)
(*   - the block/event scanner (utils/blockProcessor.js) with the event    *)
(*     dispatcher and the mutators (services/eventProcessor.js) over the   *)
(*     relational schema of utils/db.js.                                   *)
(* SpecPool is the specification of the provider pool, Spec the one of the *)
(* scanner.  Code between two awaits runs without interleaving (one        *)
(* JavaScript thread), so every action is one such stretch of code.        *)
(***************************************************************************)
EXTENDS Integers, Sequences, FiniteSets, TLC

VARIABLES
  \* ---- provider pool (utils/rpcProvider.js) ----
  endpoints,              \* RPC_ENDPOINTS, the ordered endpoint list
  currentProviderIndex,   \* let currentProviderIndex
  provider,               \* let provider: index of the endpoint it is bound to, -1 for null
  lastProviderSwitch,     \* let lastProviderSwitch (ms)
  now,                    \* Date.now() (ms); it advances in Tick only, by whole switch
                          \* intervals: the pool compares it with MIN_SWITCH_INTERVAL
                          \* alone, and a backoff delay is far below that interval
  calls,                  \* the executeWithRetry calls in flight, one record per call
  autoAt,                 \* history: time of the last automatic rotation, 0 for none
  forced,                 \* history: number of forceProviderSwitch invocations
  \* ---- scanner (utils/blockProcessor.js) over the schema of utils/db.js ----
  db,                     \* the committed tables
  tx,                     \* the tables as the open transaction of the scanner sees them
  pc,                     \* where processEventsFromLastBlock stands
  currentBlock,           \* const currentBlock
  startBlock,             \* let startBlock of the for loop
  events,                 \* let events: the logs of the sub-range
  evIdx,                  \* position of the for-of loop in events (from 1)
  blockTimestamps,        \* const blockTimestamps
  passes,                 \* number of invocations of processEventsFromLastBlock
  client,                 \* let client, and what became of the clients of the pass
  hist,                   \* history of the pass, read by the properties only
  \* ---- pixel update routes (routes/pixels-update.js) over the same tables ----
  route                   \* the request in flight on POST /api/pixels-update

poolVars == <<endpoints, currentProviderIndex, provider, lastProviderSwitch, now,
              calls, autoAt, forced>>

scanVars == <<db, tx, pc, currentBlock, startBlock, events, evIdx, blockTimestamps,
              passes, client, hist>>

vars == <<poolVars, scanVars, route>>

(***************************************************************************)
(* Bounds of the model.                                                    *)
(***************************************************************************)
NumEndpoints == 3   \* length of RPC_ENDPOINTS
NumCalls == 2       \* executeWithRetry calls that may be in flight together
MaxIntervals == 1   \* switch intervals that may pass on the clock
MaxForce == 1       \* forceProviderSwitch invocations
NumBlocks == 13     \* blocks of the chain, from the genesis block of the contract
MaxPasses == 2      \* invocations of processEventsFromLastBlock

(***************************************************************************)
(* Program constants of utils/rpcProvider.js.                              *)
(***************************************************************************)
MIN_SWITCH_INTERVAL == 60000
MAX_RETRIES == 3
INITIAL_RETRY_DELAY == 1000
MAX_RETRY_DELAY == 30000

(***************************************************************************)
(* Program constants of utils/blockProcessor.js and of                     *)
(* services/eventProcessor.js, with the defaults of the environment        *)
(* variables ARBITRUM_NOVA_GENESIS_BLOCK and EVENT_BATCH_SIZE.             *)
(***************************************************************************)
ARBITRUM_NOVA_GENESIS_BLOCK == 1954820
batchSize == 10
GRID_WIDTH == 100

Calls == 1..NumCalls

Min(a, b) == IF a < b THEN a ELSE b
Max(a, b) == IF a > b THEN a ELSE b

RECURSIVE Pow2(_)
Pow2(n) == IF n = 0 THEN 1 ELSE 2 * Pow2(n - 1)

(***************************************************************************)
(* The chain the scanner reads: the logs of the contract, in chain order.  *)
(* A log is what queryFilter returns: blockNumber, transactionHash,        *)
(* logIndex, event (the name) and args; decoded tells what the deferred    *)
(* ABI decoding of args does: "abi" it succeeds, "raw" it throws and the   *)
(* topics and data of the log decode, "none" both throw.                   *)
(***************************************************************************)
AddressZero == "0x0000000000000000000000000000000000000000"
Alice == "0xA11ce00000000000000000000000000000000001"
Bob == "0xB0b0000000000000000000000000000000000002"
Addresses == {AddressZero, Alice, Bob}

\* the 40 hexadecimal digits of an address in lower case, as a topic holds
\* them; Alice and Bob above are in the mixed case that ethers gives decoded
\* addresses and that getAddress returns
toLowerCase(a) ==
  CASE a = Alice -> "0xa11ce00000000000000000000000000000000001"
    [] a = Bob -> "0xb0b0000000000000000000000000000000000002"
    [] OTHER -> a

LastBlock == ARBITRUM_NOVA_GENESIS_BLOCK + NumBlocks - 1

BlockTime(bn) == bn     \* block.timestamp of block bn, in seconds
WallClock == LastBlock + 1   \* Date.now() / 1000 and NOW(): after every block

\* a log that contract.queryFilter gives: args is what the ABI made of it
\* (decoded says whether reading args works), topics and data are the raw log
\* (written out for the Update logs, the only ones whose raw form is read)
Log(bn, hash, li, name, args) ==
  [blockNumber |-> bn, transactionHash |-> hash, logIndex |-> li, event |-> name,
   args |-> args, decoded |-> "abi", topics |-> <<>>, data |-> <<>>]

\* event Update(address indexed owner, uint256 x, uint256 y, string tokenURI):
\* topics[0] is the hash of the signature, topics[1] the owner as a 32-byte
\* word (12 zero bytes, then the address), data is abi.encode(x, y, tokenURI):
\* the words of x and y, the offset 96 of the string, then the string
UpdateSignature == "Update(address,uint256,uint256,string)"

topicOfAddress(a) == [zeroBytes |-> 12, address |-> toLowerCase(a)]

abiEncode(x, y, tokenURI) == <<x, y, 96, tokenURI>>

UpdateLog(bn, hash, li, owner, x, y, tokenURI) ==
  [Log(bn, hash, li, "Update", [owner |-> owner, x |-> x, y |-> y, tokenURI |-> tokenURI])
     EXCEPT !.topics = <<UpdateSignature, topicOfAddress(owner)>>,
            !.data = abiEncode(x, y, tokenURI)]

ChainLog ==
  << Log(ARBITRUM_NOVA_GENESIS_BLOCK, "0xt1", 0, "Transfer",
         [from |-> AddressZero, to |-> Alice, tokenId |-> 102]),
     Log(ARBITRUM_NOVA_GENESIS_BLOCK, "0xt1", 1, "Buy",
         [buyer |-> Alice, x |-> 1, y |-> 2]),
     UpdateLog(ARBITRUM_NOVA_GENESIS_BLOCK + 1, "0xt2", 0, Alice, 1, 2, "ipfs://2"),
     Log(ARBITRUM_NOVA_GENESIS_BLOCK + 10, "0xt3", 0, "Transfer",
         [from |-> Alice, to |-> Bob, tokenId |-> 102]),
     UpdateLog(ARBITRUM_NOVA_GENESIS_BLOCK + 11, "0xt4", 0, Bob, 1, 2, "ipfs://3") >>

\* what provider.getBlockNumber() can answer: a block with logs, or the last
Heads == {ChainLog[i].blockNumber : i \in 1..Len(ChainLog)} \cup {LastBlock}

\* contract.queryFilter({}, from, to): the logs of the blocks from..to
queryFilter(from, to) ==
  SelectSeq(ChainLog, LAMBDA ev : from <= ev.blockNumber /\ ev.blockNumber <= to)

\* what contract.tokenURI(tokenId) can give a mutator: the URI of the token
\* at the head of the chain, '' (an empty URI), or a throw
UriReadFails == "tokenURI throws"

UriReads == {"", "ipfs://1", UriReadFails}

\* where a statement of a mutator can fail: nowhere, at the first statement,
\* at the second
FailPoints == {"none", "w1", "w2"}

(***************************************************************************)
(* The tables of utils/db.js (createTables).  events is a set of rows,     *)
(* UNIQUE (transaction_hash, log_index); pixel_blocks maps <<x, y>> to the *)
(* row, UNIQUE (x, y); the two history tables are the rows in insertion    *)
(* order (SERIAL id), FOREIGN KEY (x, y) REFERENCES pixel_blocks; users    *)
(* maps the address to the row.  There is no table user_name_history.      *)
(***************************************************************************)
EmptyDb ==
  [events |-> {}, pixel_blocks |-> <<>>, pixel_block_owners |-> <<>>,
   pixel_block_uri_history |-> <<>>, users |-> <<>>]

\* the result of a statement or of a handler: the tables, and whether it threw
Done(t) == [db |-> t, raised |-> FALSE]
Raise(t) == [db |-> t, raised |-> TRUE]

\* the loop without the INSERT into events before processEventLog
insertEventNever(t, ev, timestamp) == t

\* an INSERT into events that first deletes the rows from the block of the
\* log on (a rescan that replaces what it finds)
insertEventReplacing(t, ev, timestamp) ==
  [t EXCEPT !.events =
     {r \in @ : r.block_number < ev.blockNumber} \cup
       {[block_number |-> ev.blockNumber, transaction_hash |-> ev.transactionHash,
         event_type |-> ev.event, timestamp |-> timestamp,
         log_index |-> ev.logIndex]}]

\* INSERT INTO events ... ON CONFLICT (transaction_hash, log_index) DO NOTHING
insertEvent(t, ev, timestamp) ==
  IF \E r \in t.events : /\ r.transaction_hash = ev.transactionHash
                         /\ r.log_index = ev.logIndex
  THEN t
  ELSE [t EXCEPT !.events = @ \cup
          {[block_number |-> ev.blockNumber, transaction_hash |-> ev.transactionHash,
            event_type |-> ev.event, timestamp |-> timestamp,
            log_index |-> ev.logIndex]}]

\* the upsert that replaces the row it conflicts with, created_at included
upsertReplacesRow(t, x, y, owner, uri, timestamp, preferOld) ==
  LET k == <<x, y>>
      old == IF k \in DOMAIN t.pixel_blocks THEN t.pixel_blocks[k].uri ELSE ""
      row == [current_owner |-> owner,
              uri |-> IF preferOld /\ uri = "" THEN old ELSE uri,
              timestamp |-> timestamp, created_at |-> timestamp,
              updated_at |-> timestamp]
  IN [t EXCEPT !.pixel_blocks =
        [j \in (DOMAIN t.pixel_blocks) \cup {k} |->
           IF j = k THEN row ELSE t.pixel_blocks[j]]]

\* the upsert with uri = EXCLUDED.uri in both handlers, the CASE of the mint
\* dropped
upsertOverwritesUri(t, x, y, owner, uri, timestamp, preferOld) ==
  LET k == <<x, y>>
      row == IF k \in DOMAIN t.pixel_blocks
             THEN [t.pixel_blocks[k] EXCEPT
                     !.current_owner = owner, !.uri = uri,
                     !.timestamp = timestamp, !.updated_at = WallClock]
             ELSE [current_owner |-> owner, uri |-> uri, timestamp |-> timestamp,
                   created_at |-> timestamp, updated_at |-> timestamp]
  IN [t EXCEPT !.pixel_blocks =
        [j \in (DOMAIN t.pixel_blocks) \cup {k} |->
           IF j = k THEN row ELSE t.pixel_blocks[j]]]

\* INSERT INTO pixel_blocks ... ON CONFLICT (x, y) DO UPDATE SET ...; preferOld
\* is the CASE of the mint (keep the stored uri when the new one is ''); the
\* trigger update_pixel_blocks_updated_at sets updated_at to NOW() on update
upsertPixelBlock(t, x, y, owner, uri, timestamp, preferOld) ==
  LET k == <<x, y>>
      row == IF k \in DOMAIN t.pixel_blocks
             THEN [t.pixel_blocks[k] EXCEPT
                     !.current_owner = owner,
                     !.uri = IF preferOld /\ uri = "" THEN @ ELSE uri,
                     !.timestamp = timestamp,
                     !.updated_at = WallClock]
             ELSE [current_owner |-> owner, uri |-> uri, timestamp |-> timestamp,
                   created_at |-> timestamp, updated_at |-> timestamp]
  IN [t EXCEPT !.pixel_blocks =
        [j \in (DOMAIN t.pixel_blocks) \cup {k} |->
           IF j = k THEN row ELSE t.pixel_blocks[j]]]

\* the UPDATE of a regular Transfer that also sets uri = '' and created_at
updateOwnerClearsUri(t, x, y, owner, timestamp) ==
  IF <<x, y>> \in DOMAIN t.pixel_blocks
  THEN [t EXCEPT !.pixel_blocks[<<x, y>>] =
          [@ EXCEPT !.current_owner = owner, !.uri = "", !.timestamp = timestamp,
                    !.created_at = timestamp, !.updated_at = WallClock]]
  ELSE t

\* a regular Transfer that leaves the pixel_blocks row as it is
updateOwnerNever(t, x, y, owner, timestamp) == t

\* UPDATE pixel_blocks SET current_owner = $1, ... WHERE x = $2 AND y = $3
updatePixelBlockOwner(t, x, y, owner, timestamp) ==
  IF <<x, y>> \in DOMAIN t.pixel_blocks
  THEN [t EXCEPT !.pixel_blocks[<<x, y>>] =
          [@ EXCEPT !.current_owner = owner, !.timestamp = timestamp,
                    !.updated_at = WallClock]]
  ELSE t

\* the UPDATE of the uri without AND current_owner = $5
updateUriAnyOwner(t, x, y, uri, timestamp, updater) ==
  IF <<x, y>> \in DOMAIN t.pixel_blocks
  THEN [t EXCEPT !.pixel_blocks[<<x, y>>] =
          [@ EXCEPT !.uri = uri, !.timestamp = timestamp, !.updated_at = WallClock]]
  ELSE t

\* UPDATE pixel_blocks SET uri = $1, ... WHERE x = $2 AND y = $3 AND current_owner = $5
updatePixelBlockUri(t, x, y, uri, timestamp, updater) ==
  IF /\ <<x, y>> \in DOMAIN t.pixel_blocks
     /\ t.pixel_blocks[<<x, y>>].current_owner = updater
  THEN [t EXCEPT !.pixel_blocks[<<x, y>>] =
          [@ EXCEPT !.uri = uri, !.timestamp = timestamp, !.updated_at = WallClock]]
  ELSE t

\* the INSERT into a pixel_block_owners that has no foreign key
insertOwnerNoForeignKey(t, x, y, owner, timestamp, transactionHash, blockNumber) ==
  Done([t EXCEPT !.pixel_block_owners = Append(@,
          [x |-> x, y |-> y, owner |-> owner, timestamp |-> timestamp,
           transaction_hash |-> transactionHash, block_number |-> blockNumber])])

\* INSERT INTO pixel_block_owners ...: the foreign key needs the pixel_blocks row
insertPixelBlockOwner(t, x, y, owner, timestamp, transactionHash, blockNumber) ==
  IF <<x, y>> \notin DOMAIN t.pixel_blocks
  THEN Raise(t)
  ELSE Done([t EXCEPT !.pixel_block_owners = Append(@,
          [x |-> x, y |-> y, owner |-> owner, timestamp |-> timestamp,
           transaction_hash |-> transactionHash, block_number |-> blockNumber])])

\* INSERT INTO pixel_block_uri_history ...: the same foreign key
insertPixelBlockUriHistory(t, x, y, uri, owner, timestamp, transactionHash, blockNumber) ==
  IF <<x, y>> \notin DOMAIN t.pixel_blocks
  THEN Raise(t)
  ELSE Done([t EXCEPT !.pixel_block_uri_history = Append(@,
          [x |-> x, y |-> y, uri |-> uri, owner |-> owner, timestamp |-> timestamp,
           transaction_hash |-> transactionHash, block_number |-> blockNumber])])

\* INSERT INTO users ... ON CONFLICT (address) DO UPDATE SET user_name, updated_at
upsertUser(t, user, name, timestamp) ==
  LET row == IF user \in DOMAIN t.users
             THEN [t.users[user] EXCEPT !.user_name = name, !.updated_at = WallClock]
             ELSE [user_name |-> name, created_at |-> timestamp, updated_at |-> timestamp]
  IN [t EXCEPT !.users =
        [a \in (DOMAIN t.users) \cup {user} |-> IF a = user THEN row ELSE t.users[a]]]

(***************************************************************************)
(* services/eventProcessor.js.  A handler takes the tables t that its      *)
(* transaction sees and gives the tables after it and whether it threw;    *)
(* tokenUri is what contract.tokenURI answers it, fail where a statement   *)
(* of it fails (every catch of a handler rethrows).                        *)
(***************************************************************************)
\* lines 195-203 and 243-252: let tokenUri = '' and the try around the read,
\* whose catch logs and leaves the empty string
fetchTokenUri(read) == IF read = UriReadFails THEN "" ELSE read

convertTokenIdToXY(tokenId) == [x |-> tokenId \div GRID_WIDTH, y |-> tokenId % GRID_WIDTH]

calculateTokenId(x, y) == x * GRID_WIDTH + y

\* handleBuyEvent without its INSERT INTO pixel_block_owners
handleBuyNoHistory(t, buyer, x, y, timestamp, transactionHash, blockNumber, tokenUri, fail) ==
  IF fail = "w1" THEN Raise(t)
  ELSE LET t1 == upsertPixelBlock(t, x, y, buyer, fetchTokenUri(tokenUri), timestamp, FALSE)
       IN IF fail = "w2" THEN Raise(t1) ELSE Done(t1)

\* handleBuyEvent with a catch around the read that rethrows
handleBuyUriThrows(t, buyer, x, y, timestamp, transactionHash, blockNumber, tokenUri, fail) ==
  IF fail = "w1" \/ tokenUri = UriReadFails THEN Raise(t)
  ELSE LET t1 == upsertPixelBlock(t, x, y, buyer, tokenUri, timestamp, FALSE)
       IN IF fail = "w2" THEN Raise(t1)
          ELSE insertPixelBlockOwner(t1, x, y, buyer, timestamp, transactionHash,
                                     blockNumber)

\* lines 192-233
handleBuyEvent(t, buyer, x, y, timestamp, transactionHash, blockNumber, tokenUri, fail) ==
  IF fail = "w1" THEN Raise(t)
  ELSE LET t1 == upsertPixelBlock(t, x, y, buyer, fetchTokenUri(tokenUri), timestamp, FALSE)
       IN IF fail = "w2" THEN Raise(t1)
          ELSE insertPixelBlockOwner(t1, x, y, buyer, timestamp, transactionHash,
                                     blockNumber)

handleTransferEvent(t, from, to, tokenIdBigNum, timestamp, transactionHash, blockNumber, tokenUri, fail) ==
  IF fail = "w1" THEN Raise(t)
  ELSE LET xy == convertTokenIdToXY(tokenIdBigNum)
           t1 == IF from = AddressZero
                 THEN upsertPixelBlock(t, xy.x, xy.y, to, fetchTokenUri(tokenUri),
                                       timestamp, TRUE)
                 ELSE updatePixelBlockOwner(t, xy.x, xy.y, to, timestamp)
       IN IF fail = "w2" THEN Raise(t1)
          ELSE insertPixelBlockOwner(t1, xy.x, xy.y, to, timestamp, transactionHash,
                                     blockNumber)

\* handleUpdateEvent with catch blocks that log and do not rethrow
handleUpdateSwallows(t, updater, x, y, uri, timestamp, transactionHash, blockNumber, fail) ==
  IF fail = "w1" THEN Done(t)
  ELSE Done(updatePixelBlockUri(t, x, y, uri, timestamp, updater))

handleUpdateEvent(t, updater, x, y, uri, timestamp, transactionHash, blockNumber, fail) ==
  IF fail = "w1" THEN Raise(t)
  ELSE LET t1 == updatePixelBlockUri(t, x, y, uri, timestamp, updater)
       IN IF fail = "w2" THEN Raise(t1)
          ELSE insertPixelBlockUriHistory(t1, x, y, uri, updater, timestamp,
                                          transactionHash, blockNumber)

\* the second statement names the relation user_name_history, which
\* createTables does not create: it fails
handleNamedEvent(t, user, name, timestamp, transactionHash, blockNumber, fail) ==
  IF fail = "w1" THEN Raise(t)
  ELSE Raise(upsertUser(t, user, name, timestamp))

handleOwnershipTransferredEvent(t) == Done(t)

\* the loop of the BatchBuy branch, from index i (from 1) on
RECURSIVE batchBuy(_, _, _, _, _, _, _, _, _, _)
batchBuy(t, buyer, xArray, yArray, i, timestamp, transactionHash, blockNumber, tokenUri, fail) ==
  IF i > Len(xArray) THEN Done(t)
  ELSE IF i > Len(yArray) THEN Raise(t)
  ELSE LET r == handleBuyEvent(t, buyer, xArray[i], yArray[i], timestamp,
                               transactionHash, blockNumber, tokenUri, fail)
       IN IF r.raised THEN r
          ELSE batchBuy(r.db, buyer, xArray, yArray, i + 1, timestamp, transactionHash,
                        blockNumber, tokenUri, fail)

\* safeGetArg(args, name) || safeGetArg(args, index) gives null for every
\* argument of a log whose decoding throws
undecoded(ev) == ev.decoded # "abi"

\* ethers.utils.getAddress: the address in mixed case, a throw for what is
\* not an address
getAddress(s) ==
  IF \E a \in Addresses : toLowerCase(a) = s
  THEN [ok |-> TRUE, address |-> CHOOSE a \in Addresses : toLowerCase(a) = s]
  ELSE [ok |-> FALSE, address |-> s]

\* the raw decoding that reads the x and y words in the other order
rawDecodeSwapsWords(topics, data) ==
  IF Len(topics) < 2 \/ Len(data) # 4 \/ ~getAddress(topics[2].address).ok
  THEN [ok |-> FALSE]
  ELSE [ok |-> TRUE, updater |-> getAddress(topics[2].address).address,
        xCoord |-> data[2], yCoord |-> data[1], uri |-> data[4]]

\* lines 462-470, the raw decoding of an Update log: the address is the last
\* 20 bytes of topics[1] ('0x' + topics[1].slice(26)) through getAddress;
\* defaultAbiCoder.decode(['uint256', 'uint256', 'string'], data) reads the
\* two words and follows the offset to the string.  A topics without
\* topics[1], a topic that holds no address, a data that is too short or
\* whose offset does not lead to a string make it throw
rawDecodeUpdate(topics, data) ==
  IF \/ Len(topics) < 2
     \/ topics[2].zeroBytes # 12
     \/ ~getAddress(topics[2].address).ok
     \/ Len(data) # 4
     \/ data[3] # 96
  THEN [ok |-> FALSE]
  ELSE [ok |-> TRUE, updater |-> getAddress(topics[2].address).address,
        xCoord |-> data[1], yCoord |-> data[2], uri |-> data[4]]

\* lines 443-483: the named access to args first; when it throws, the raw
\* decoding; ok is false when both threw
decodeUpdate(ev) ==
  IF ev.decoded = "abi"
  THEN [ok |-> TRUE, updater |-> ev.args.owner, xCoord |-> ev.args.x,
        yCoord |-> ev.args.y, uri |-> ev.args.tokenURI]
  ELSE rawDecodeUpdate(ev.topics, ev.data)

\* the test of line 509 on the user of a Named log
validUser(user) == user \in Addresses

\* the Update branch with throw rawDecodeError in place of its return
dispatchUpdateThrows(t, ev, eventTimestamp, fail) ==
  LET d == decodeUpdate(ev)
  IN IF ~d.ok THEN Raise(t)
     ELSE handleUpdateEvent(t, d.updater, d.xCoord, d.yCoord, d.uri, eventTimestamp,
                            ev.transactionHash, ev.blockNumber, fail)

\* lines 438-485, the Update branch: named access first, then the raw
\* decoding of topics and data; when both throw the log is skipped without
\* a throw (return)
dispatchUpdate(t, ev, eventTimestamp, fail) ==
  LET d == decodeUpdate(ev)
  IN IF ~d.ok THEN Done(t)
     ELSE handleUpdateEvent(t, d.updater, d.xCoord, d.yCoord, d.uri, eventTimestamp,
                            ev.transactionHash, ev.blockNumber, fail)

processEventLog(t, ev, eventTimestamp, tokenUri, fail) ==
  CASE ev.event = "Buy" ->
         \* BigNumber.from(null) throws
         IF undecoded(ev) THEN Raise(t)
         ELSE handleBuyEvent(t, ev.args.buyer, ev.args.x, ev.args.y, eventTimestamp,
                             ev.transactionHash, ev.blockNumber, tokenUri, fail)
    [] ev.event = "BatchBuy" ->
         \* xArray.length of null throws
         IF undecoded(ev) THEN Raise(t)
         ELSE batchBuy(t, ev.args.buyer, ev.args.x, ev.args.y, 1, eventTimestamp,
                       ev.transactionHash, ev.blockNumber, tokenUri, fail)
    [] ev.event = "Transfer" ->
         \* BigNumber.from(null) throws in handleTransferEvent, line 237
         IF undecoded(ev) THEN Raise(t)
         ELSE handleTransferEvent(t, ev.args.from, ev.args.to, ev.args.tokenId,
                                  eventTimestamp, ev.transactionHash, ev.blockNumber,
                                  tokenUri, fail)
    [] ev.event = "Update" -> dispatchUpdate(t, ev, eventTimestamp, fail)
    [] ev.event = "OwnershipTransferred" -> handleOwnershipTransferredEvent(t)
    [] ev.event = "Named" ->
         \* a null user fails the test of line 509: the log is skipped
         IF undecoded(ev) \/ ~validUser(ev.args.user) THEN Done(t)
         ELSE handleNamedEvent(t, ev.args.user,
                               IF ev.args.name.indexed THEN ev.args.name.hash
                               ELSE ev.args.name.text,
                               eventTimestamp, ev.transactionHash, ev.blockNumber, fail)
    [] OTHER -> Done(t)

(***************************************************************************)
(* utils/blockProcessor.js.                                                *)
(***************************************************************************)
defaultStartBlock == ARBITRUM_NOVA_GENESIS_BLOCK - 1

RECURSIVE MaxOf(_)
MaxOf(S) == LET a == CHOOSE b \in S : TRUE
            IN IF S = {a} THEN a ELSE Max(a, MaxOf(S \ {a}))

\* getLastProcessedBlock() with the genesis block itself as the default
getLastProcessedBlockFromGenesis(d, queryOk) ==
  IF ~queryOk \/ d.events = {} THEN ARBITRUM_NOVA_GENESIS_BLOCK
  ELSE MaxOf({r.block_number : r \in d.events})

\* getLastProcessedBlock(): SELECT MAX(block_number) FROM events, the default
\* start block when there is no row and when the query fails (queryOk false)
getLastProcessedBlock(d, queryOk) ==
  IF ~queryOk \/ d.events = {} THEN defaultStartBlock
  ELSE MaxOf({r.block_number : r \in d.events})

\* ROLLBACK and COMMIT: the committed tables d after the statement ends the
\* transaction that sees the tables t
rollbackKeepsWrites(d, t) == t
rollback(d, t) == d
commit(d, t) == t

\* history of the scanner: pre is the committed state at the BEGIN of the
\* sub-range, raised that something of the sub-range threw, wrote that the
\* transaction had changed a table when it was rolled back, outcome how the
\* sub-range ended, fetchFailed the starts of the
\* sub-ranges of this pass whose queryFilter threw, dup that the open
\* transaction processed again a log that had its events row and changed an
\* owner or a uri of pixel_blocks doing so, dupCommitted that such a
\* transaction has committed, rpcTries the number of times the scanner had
\* issued the chain call that it has just taken as failed (0 when the last
\* step took no chain call as failed), step what the last turn of the for-of
\* loop met (NoStep before the first turn and once a COMMIT was issued),
\* queryOk whether the query of getLastProcessedBlock succeeded in the last
\* pass and lastBlock what getLastProcessedBlock returned it, tsFailed the
\* blocks of the sub-range for which provider.getBlock threw, head what
\* provider.getBlockNumber answered the last pass that it answered, clean
\* that no call and no statement of the pass has thrown so far
NoStep == [insertOk |-> TRUE, tokenUri |-> "", fail |-> "none"]

NoHist ==
  [pre |-> EmptyDb, outcome |-> "none", raised |-> FALSE, wrote |-> FALSE,
   fetchFailed |-> {}, dup |-> FALSE, dupCommitted |-> FALSE, rpcTries |-> 0,
   step |-> NoStep, queryOk |-> TRUE, lastBlock |-> defaultStartBlock,
   tsFailed |-> {}, head |-> defaultStartBlock, clean |-> TRUE]

\* the clients of pool.connect() in a pass.  ref is the variable client of
\* processEventsFromLastBlock (undefined, a client, null); last is what
\* became of the client that line 86 acquired last ("none" before the first)
\* and watermark of the client of getLastProcessedBlock: held, released by
\* one release(), or released by a second release()
NoClient == [ref |-> "undefined", last |-> "none", watermark |-> "none"]

\* client.release()
release(status) == IF status = "held" THEN "released" ELSE "releasedTwice"

\* lines 17-33, the client of getLastProcessedBlock: none when pool.connect
\* throws; the finally releases the one it got, whatever the query did
watermarkClient(connectOk) == IF connectOk THEN release("held") ELSE "none"

\* line 86, client = await pool.connect() when it answers
connect(c) == [c EXCEPT !.ref = "client", !.last = "held"]

\* the finally of the sub-range without client = null
innerFinallyKeepsRef(c) ==
  IF c.ref = "client" THEN [c EXCEPT !.last = release(@)] ELSE c

\* lines 137-142, the finally of the sub-range
innerFinally(c) ==
  IF c.ref = "client" THEN [c EXCEPT !.last = release(@), !.ref = "null"] ELSE c

\* lines 146-150, the finally of processEventsFromLastBlock
outerFinally(c) ==
  IF c.ref = "client" THEN [c EXCEPT !.last = release(@)] ELSE c

\* no request on the pixel update routes is in flight
NoRoute ==
  [pc |-> "idle", kind |-> "single", address |-> AddressZero, pixels |-> <<>>,
   image |-> "", status |-> 0]

InitScanner ==
  /\ db = EmptyDb
  /\ tx = EmptyDb
  /\ pc = "idle"
  /\ currentBlock = defaultStartBlock
  /\ startBlock = defaultStartBlock
  /\ events = <<>>
  /\ evIdx = 1
  /\ blockTimestamps = <<>>
  /\ passes = 0
  /\ client = NoClient
  /\ hist = NoHist
  /\ route = NoRoute

(***************************************************************************)
(* What an attempt of the operation can throw.  A message is the set of    *)
(* the lower-cased fragments it contains (message.includes is membership); *)
(* code "429" stands for the number 429.                                   *)
(***************************************************************************)
RateLimitError == [falsy |-> FALSE, message |-> {"too many requests", "429"}, code |-> "429"]
TimeoutError == [falsy |-> FALSE, message |-> {"timeout"}, code |-> "TIMEOUT"]
DecodeError == [falsy |-> FALSE, message |-> {"data out-of-bounds"}, code |-> "BUFFER_OVERRUN"]
NoError == [falsy |-> TRUE, message |-> {}, code |-> "none"]

Thrown == {RateLimitError, TimeoutError, DecodeError}

ProviderMessages ==
  {"rate limit", "too many requests", "429", "econnrefused", "econnreset",
   "etimedout", "socket hang up", "network error", "capacity", "unavailable",
   "502", "503", "504"}

ProviderCodes == {"429", "NETWORK_ERROR", "TIMEOUT", "SERVER_ERROR"}

isProviderErrorAny(error) == ~error.falsy

isProviderError(error) ==
  IF error.falsy THEN FALSE
  ELSE \/ error.message \cap ProviderMessages # {}
       \/ error.code \in ProviderCodes

(***************************************************************************)
(* getRetryDelay: exponential backoff with +-25% jitter.  rnd is           *)
(* Math.random() in hundredths.                                            *)
(***************************************************************************)
RandomSamples == {0, 99}

getRetryDelay(attempt, rnd) ==
  LET delay == Min(INITIAL_RETRY_DELAY * Pow2(attempt), MAX_RETRY_DELAY)
  IN (400 * delay + delay * (2 * rnd - 100)) \div 400

(***************************************************************************)
(* switchToNextProvider at time t: the new cursor and the returned value.  *)
(***************************************************************************)
switchTwice(idx, last, t, n) ==
  IF t - last < MIN_SWITCH_INTERVAL
  THEN [ok |-> FALSE, index |-> idx, last |-> last]
  ELSE [ok |-> TRUE, index |-> (idx + 2) % n, last |-> t]

switchNoCooldown(idx, last, t, n) ==
  [ok |-> TRUE, index |-> (idx + 1) % n, last |-> t]

switchToNextProvider(idx, last, t, n) ==
  IF t - last < MIN_SWITCH_INTERVAL
  THEN [ok |-> FALSE, index |-> idx, last |-> last]
  ELSE [ok |-> TRUE, index |-> (idx + 1) % n, last |-> t]

(***************************************************************************)
(* getProviderStats().totalEndpoints and .currentIndex                     *)
(***************************************************************************)
getProviderStats ==
  [currentIndex |-> currentProviderIndex, totalEndpoints |-> Len(endpoints)]

maxTotalAttempts == MAX_RETRIES * Len(endpoints)

IdleCall ==
  [pc |-> "idle", cur |-> -1, attempt |-> 0, totalAttempts |-> 0,
   lastError |-> NoError, delay |-> 0, outcome |-> "none", raised |-> NoError,
   \* history of the call, read by the properties only
   tried |-> [i \in 0..(NumEndpoints - 1) |-> 0],
   refusedAt |-> 0, failErr |-> NoError, failAt |-> 0, okAt |-> 0, streak |-> 0,
   rlRotated |-> FALSE]

InitPool ==
  /\ endpoints = [i \in 1..NumEndpoints |-> i]
  /\ currentProviderIndex = 0
  /\ provider = -1
  /\ lastProviderSwitch = 0
  /\ now = MIN_SWITCH_INTERVAL
  /\ calls = [c \in Calls |-> IdleCall]
  /\ autoAt = 0
  /\ forced = 0

(***************************************************************************)
(* executeWithRetry, lines 147-152 and 154-158: the test of the while      *)
(* loop, getProvider() and the first attempt of the for loop, up to the    *)
(* await of rpcCall; or, the budget used up, lines 191-195.                *)
(***************************************************************************)
EnterWhileOffByOne(call, prov) ==
  IF call.totalAttempts <= maxTotalAttempts
  THEN [call EXCEPT !.pc = "calling", !.cur = prov, !.attempt = 0,
                    !.totalAttempts = @ + 1, !.tried[prov] = @ + 1,
                    !.streak = 0]
  ELSE [call EXCEPT !.pc = "done", !.outcome = "raised", !.raised = call.lastError]

EnterWhile(call, prov) ==
  IF call.totalAttempts < maxTotalAttempts
  THEN [call EXCEPT !.pc = "calling", !.cur = prov, !.attempt = 0,
                    !.totalAttempts = @ + 1, !.tried[prov] = @ + 1,
                    !.streak = 0]
  ELSE [call EXCEPT !.pc = "done", !.outcome = "raised", !.raised = call.lastError]

\* getProvider(): the module's provider, created on first use
getProvider == IF provider = -1 /\ Len(endpoints) > 0 THEN currentProviderIndex ELSE provider

\* A caller invokes executeWithRetry(rpcCall, operationName).
Begin(c) ==
  /\ calls[c].pc = "idle"
  /\ UNCHANGED <<scanVars, route>>
  /\ provider' = getProvider
  /\ calls' = [calls EXCEPT ![c] = EnterWhile(calls[c], provider')]
  /\ UNCHANGED <<endpoints, currentProviderIndex, lastProviderSwitch, now, autoAt, forced>>

\* await rpcCall(currentProvider) resolves: line 159, return result
Succeed(c) ==
  /\ calls[c].pc = "calling"
  /\ UNCHANGED <<scanVars, route>>
  /\ calls' = [calls EXCEPT ![c].pc = "done", ![c].outcome = "returned",
                            ![c].okAt = calls[c].totalAttempts]
  /\ UNCHANGED <<endpoints, currentProviderIndex, provider, lastProviderSwitch, now,
                 autoAt, forced>>

\* await rpcCall(currentProvider) rejects with error: the catch block, lines 160-187
Fail(c, error) ==
  /\ calls[c].pc = "calling"
  /\ UNCHANGED <<scanVars, route>>
  /\ LET call == [calls[c] EXCEPT
                    !.lastError = error, !.failErr = error,
                    !.failAt = calls[c].totalAttempts,
                    !.streak = IF error = RateLimitError /\ calls[c].cur = currentProviderIndex
                               THEN @ + 1 ELSE 0]
     IN IF isProviderError(error)
        THEN IF call.attempt < MAX_RETRIES - 1
             THEN \* sleep(getRetryDelay(attempt)); continue
                  /\ \E rnd \in RandomSamples :
                       calls' = [calls EXCEPT ![c] =
                                  [call EXCEPT !.pc = "sleeping",
                                               !.delay = getRetryDelay(call.attempt, rnd)]]
                  /\ UNCHANGED <<endpoints, currentProviderIndex, provider,
                                 lastProviderSwitch, now, autoAt, forced>>
             ELSE \* switchToNextProvider(), then the while loop again
                  LET s == switchToNextProvider(currentProviderIndex, lastProviderSwitch,
                                                now, Len(endpoints))
                  IN /\ currentProviderIndex' = s.index
                     /\ lastProviderSwitch' = s.last
                     /\ provider' = IF s.ok THEN s.index ELSE provider
                     /\ autoAt' = IF s.ok THEN now ELSE autoAt
                     /\ calls' = [calls EXCEPT ![c] =
                                   EnterWhile([call EXCEPT
                                                 !.refusedAt =
                                                   IF ~s.ok /\ @ = 0 THEN call.totalAttempts ELSE @,
                                                 !.rlRotated =
                                                   @ \/ (s.ok /\ call.streak = MAX_RETRIES)],
                                              provider')]
                     /\ UNCHANGED <<endpoints, now, forced>>
        ELSE \* throw error
             /\ calls' = [calls EXCEPT ![c] =
                           [call EXCEPT !.pc = "done", !.outcome = "raised", !.raised = error]]
             /\ UNCHANGED <<endpoints, currentProviderIndex, provider, lastProviderSwitch,
                            now, autoAt, forced>>

\* the sleep of line 175 ends: continue, the next attempt on the same provider object
Wake(c) ==
  /\ calls[c].pc = "sleeping"
  /\ UNCHANGED <<scanVars, route>>
  /\ calls' = [calls EXCEPT ![c].pc = "calling", ![c].attempt = @ + 1,
                            ![c].totalAttempts = @ + 1, ![c].delay = 0,
                            ![c].tried[calls[c].cur] = @ + 1]
  /\ UNCHANGED <<endpoints, currentProviderIndex, provider, lastProviderSwitch, now,
                 autoAt, forced>>

\* forceProviderSwitch() without the reset of lastProviderSwitch
forceKeepsCooldown ==
  /\ forced < MaxForce
  /\ UNCHANGED <<scanVars, route>>
  /\ forced' = forced + 1
  /\ LET s == switchToNextProvider(currentProviderIndex, lastProviderSwitch, now,
                                   Len(endpoints))
     IN /\ currentProviderIndex' = s.index
        /\ lastProviderSwitch' = s.last
        /\ provider' = IF s.ok THEN s.index ELSE provider
  /\ UNCHANGED <<endpoints, now, calls, autoAt>>

\* forceProviderSwitch(), lines 285-288
forceProviderSwitch ==
  /\ forced < MaxForce
  /\ UNCHANGED <<scanVars, route>>
  /\ forced' = forced + 1
  /\ LET s == switchToNextProvider(currentProviderIndex, 0, now, Len(endpoints))
     IN /\ currentProviderIndex' = s.index
        /\ lastProviderSwitch' = s.last
        /\ provider' = IF s.ok THEN s.index ELSE provider
  /\ UNCHANGED <<endpoints, now, calls, autoAt>>

\* time passes: a slow response, an idle period
Tick ==
  /\ now < MIN_SWITCH_INTERVAL * (MaxIntervals + 1)
  /\ UNCHANGED <<scanVars, route>>
  /\ now' = now + MIN_SWITCH_INTERVAL
  /\ UNCHANGED <<endpoints, currentProviderIndex, provider, lastProviderSwitch, calls,
                 autoAt, forced>>

CallStep(c) == Succeed(c) \/ (\E error \in Thrown : Fail(c, error)) \/ Wake(c)

NextPool ==
  \/ \E c \in Calls : Begin(c)
  \/ \E c \in Calls : Succeed(c)
  \/ \E c \in Calls, error \in Thrown : Fail(c, error)
  \/ \E c \in Calls : Wake(c)
  \/ forceProviderSwitch
  \/ Tick

\* the state after the modules are loaded and createTables() has run
Init == InitPool /\ InitScanner

SpecPool == Init /\ [][NextPool]_vars

(***************************************************************************)
(* The scanner, processEventsFromLastBlock (utils/blockProcessor.js,       *)
(* lines 36-151).  index.js awaits one invocation per start of the server, *)
(* so the passes follow one another and nothing else writes the tables     *)
(* meanwhile.                                                              *)
(***************************************************************************)

\* the outer catch with a throw after its log line: the error leaves
\* processEventsFromLastBlock
outerCatchRethrows == "thrown"

\* lines 143-149, the outer catch and finally: the error is logged, the
\* client (if one is held) released, and processEventsFromLastBlock returns
outerCatch == "idle"

\* the test of the for loop with < for <=: a last sub-range of one block is
\* left out
forNextStrict(s, cur) == IF s + batchSize < cur THEN "query" ELSE "idle"

\* line 56, startBlock += batchSize and the test of the for loop: where the
\* scanner stands after the sub-range that starts at s
forNext(s, cur) == IF s + batchSize <= cur THEN "query" ELSE "idle"

\* lines 40-54: the watermark (its query succeeds or not), the head of the
\* chain (provider.getBlockNumber() answers head, or throws into the outer
\* catch), the early return, the first startBlock
StartPass(queryOk, headOk, head) ==
  /\ pc = "idle"
  /\ passes < MaxPasses
  /\ passes' = passes + 1
  /\ LET lastBlock == getLastProcessedBlock(db, queryOk)
     IN IF ~headOk \/ lastBlock >= head
        THEN /\ pc' = IF headOk THEN "idle" ELSE outerCatch
             /\ UNCHANGED <<currentBlock, startBlock>>
        ELSE /\ pc' = "query"
             /\ currentBlock' = head
             /\ startBlock' = lastBlock + 1
  /\ \E connectOk \in BOOLEAN :
       /\ queryOk => connectOk
       /\ client' = outerFinally([NoClient EXCEPT
                                   !.watermark = watermarkClient(connectOk)])
  /\ hist' = [hist EXCEPT !.fetchFailed = {}, !.outcome = "none", !.raised = FALSE,
                          !.rpcTries = IF headOk THEN 0 ELSE 1,
                          !.queryOk = queryOk,
                          !.lastBlock = getLastProcessedBlock(db, queryOk),
                          !.head = IF headOk THEN head ELSE @,
                          !.clean = queryOk /\ headOk]
  /\ UNCHANGED <<db, tx, events, evIdx, blockTimestamps>>
  /\ UNCHANGED <<poolVars, route>>

\* the sub-range step without the continue of an empty answer (lines 68-71)
QueryEventsNoContinue(ok) ==
  /\ pc = "query"
  /\ LET endBlock == Min(startBlock + batchSize - 1, currentBlock)
         found == queryFilter(startBlock, endBlock)
     IN IF ok
        THEN /\ events' = found
             /\ pc' = "timestamps"
             /\ hist' = [hist EXCEPT !.outcome = "none", !.rpcTries = 0]
             /\ UNCHANGED startBlock
        ELSE /\ events' = <<>>
             /\ pc' = forNext(startBlock, currentBlock)
             /\ startBlock' = startBlock + batchSize
             /\ hist' = [hist EXCEPT !.outcome = "none", !.clean = FALSE,
                           !.fetchFailed = @ \cup {startBlock}, !.rpcTries = 1]
  /\ UNCHANGED <<db, tx, currentBlock, evIdx, blockTimestamps, passes>>
  /\ client' = IF pc' = "idle" THEN outerFinally(client) ELSE client
  /\ UNCHANGED <<poolVars, route>>

\* lines 57-71: endBlock, contract.queryFilter (it answers or throws), the
\* two continue statements
QueryEvents(ok) ==
  /\ pc = "query"
  /\ LET endBlock == Min(startBlock + batchSize - 1, currentBlock)
         found == queryFilter(startBlock, endBlock)
     IN IF ok /\ Len(found) > 0
        THEN /\ events' = found
             /\ pc' = "timestamps"
             /\ hist' = [hist EXCEPT !.outcome = "none", !.rpcTries = 0]
             /\ UNCHANGED startBlock
        ELSE /\ events' = <<>>
             /\ pc' = forNext(startBlock, currentBlock)
             /\ startBlock' = startBlock + batchSize
             /\ hist' = [hist EXCEPT !.outcome = "none",
                           !.fetchFailed = IF ok THEN @ ELSE @ \cup {startBlock},
                           !.rpcTries = IF ok THEN 0 ELSE 1,
                           !.clean = @ /\ ok]
  /\ UNCHANGED <<db, tx, currentBlock, evIdx, blockTimestamps, passes>>
  /\ client' = IF pc' = "idle" THEN outerFinally(client) ELSE client
  /\ UNCHANGED <<poolVars, route>>

\* lines 73-84: provider.getBlock for each block number of the logs; for the
\* blocks in failed it throws and the wall clock stands in
uniqueBlockNumbers == {events[i].blockNumber : i \in 1..Len(events)}

\* the loop of lines 76-84 with one try around the whole of it: a failed
\* getBlock gives the wall clock to every block of the sub-range
FetchTimestampsOneTry(failed) ==
  /\ pc = "timestamps"
  /\ blockTimestamps' = [bn \in uniqueBlockNumbers |->
                           IF failed # {} THEN WallClock ELSE BlockTime(bn)]
  /\ pc' = "begin"
  /\ hist' = [hist EXCEPT !.rpcTries = IF failed = {} THEN 0 ELSE 1,
                          !.tsFailed = failed, !.clean = @ /\ failed = {}]
  /\ UNCHANGED <<db, tx, currentBlock, startBlock, events, evIdx, passes, client>>
  /\ UNCHANGED <<poolVars, route>>

FetchTimestamps(failed) ==
  /\ pc = "timestamps"
  /\ blockTimestamps' = [bn \in uniqueBlockNumbers |->
                           IF bn \in failed THEN WallClock ELSE BlockTime(bn)]
  /\ pc' = "begin"
  /\ hist' = [hist EXCEPT !.rpcTries = IF failed = {} THEN 0 ELSE 1,
                          !.tsFailed = failed, !.clean = @ /\ failed = {}]
  /\ UNCHANGED <<db, tx, currentBlock, startBlock, events, evIdx, passes, client>>
  /\ UNCHANGED <<poolVars, route>>

\* lines 86-88: pool.connect() (a throw goes to the outer catch and ends the
\* pass) and BEGIN (a throw goes to the catch of the sub-range)
BeginTx(connectOk, beginOk) ==
  /\ pc = "begin"
  /\ IF ~connectOk
     THEN /\ pc' = outerCatch
          /\ hist' = [hist EXCEPT !.clean = FALSE]
          /\ client' = outerFinally(client)
          /\ UNCHANGED <<tx, evIdx>>
     ELSE /\ pc' = IF beginOk THEN "events" ELSE "rollback"
          /\ client' = connect(client)
          /\ tx' = db
          /\ evIdx' = 1
          /\ hist' = [hist EXCEPT !.pre = db, !.outcome = "none", !.dup = FALSE,
                                  !.raised = ~beginOk, !.wrote = FALSE, !.rpcTries = 0,
                                  !.clean = @ /\ beginOk]
  /\ UNCHANGED <<db, currentBlock, startBlock, events, blockTimestamps, passes>>
  /\ UNCHANGED <<poolVars, route>>

\* the owner and the uri of every pixel_blocks row
cellContent(t) ==
  [k \in DOMAIN t.pixel_blocks |->
     [current_owner |-> t.pixel_blocks[k].current_owner, uri |-> t.pixel_blocks[k].uri]]

\* the handler of log ev reads contract.tokenURI
readsTokenUri(ev) ==
  /\ ~undecoded(ev)
  /\ \/ ev.event \in {"Buy", "BatchBuy"}
     \/ ev.event = "Transfer" /\ ev.args.from = AddressZero

\* the dispatch of log ev reaches the statements of a handler
reachesWrites(ev) ==
  \/ ev.event \in {"Buy", "BatchBuy", "Transfer"} /\ ~undecoded(ev)
  \/ ev.event = "Update" /\ decodeUpdate(ev).ok
  \/ ev.event = "Named" /\ ~undecoded(ev) /\ validUser(ev.args.user)

\* what a turn of the for-of loop on log ev met: whether the INSERT into
\* events succeeded, what contract.tokenURI answered the handler (when it asks)
\* and which statement of the handler failed (when it has statements)
stepMet(ev, insertOk, tokenUri, fail) ==
  [insertOk |-> insertOk,
   tokenUri |-> IF insertOk /\ readsTokenUri(ev) THEN tokenUri ELSE "",
   fail |-> IF insertOk /\ reachesWrites(ev) THEN fail ELSE "none"]

\* lines 90-121, one turn of the for-of loop: the INSERT into events (it
\* succeeds or throws), then processEventLog whatever the INSERT did
ProcessEvent(insertOk, tokenUri, fail) ==
  /\ pc = "events"
  /\ LET ev == events[evIdx]
         timestamp == blockTimestamps[ev.blockNumber]
         t1 == insertEvent(tx, ev, timestamp)
         r == processEventLog(t1, ev, timestamp, tokenUri, fail)
     IN IF ~insertOk
        THEN /\ pc' = "rollback"
             /\ hist' = [hist EXCEPT !.raised = TRUE, !.clean = FALSE,
                                     !.step = stepMet(ev, insertOk, tokenUri, fail)]
             /\ UNCHANGED <<tx, evIdx>>
        ELSE /\ tx' = r.db
             /\ hist' = [hist EXCEPT
                           !.raised = r.raised,
                           !.clean = @ /\ ~r.raised,
                           !.step = stepMet(ev, insertOk, tokenUri, fail),
                           !.dup = @ \/ (t1 = tx /\ cellContent(r.db) # cellContent(t1))]
             /\ IF r.raised
                THEN pc' = "rollback" /\ UNCHANGED evIdx
                ELSE /\ evIdx' = evIdx + 1
                     /\ pc' = IF evIdx = Len(events) THEN "commit" ELSE "events"
  /\ UNCHANGED <<db, currentBlock, startBlock, events, blockTimestamps, passes, client>>
  /\ UNCHANGED <<poolVars, route>>

\* line 122, COMMIT: it succeeds, or throws into the catch of the sub-range
Commit(ok) ==
  /\ pc = "commit"
  /\ IF ok
     THEN /\ db' = commit(db, tx)
          /\ pc' = forNext(startBlock, currentBlock)
          /\ startBlock' = startBlock + batchSize
          /\ client' = IF pc' = "idle" THEN outerFinally(innerFinally(client))
                       ELSE innerFinally(client)
          /\ hist' = [hist EXCEPT !.outcome = "committed", !.step = NoStep,
                                  !.dupCommitted = @ \/ hist.dup]
     ELSE /\ pc' = "rollback"
          /\ hist' = [hist EXCEPT !.raised = TRUE, !.step = NoStep, !.clean = FALSE]
          /\ UNCHANGED <<db, startBlock, client>>
  /\ UNCHANGED <<tx, currentBlock, events, evIdx, blockTimestamps, passes>>
  /\ UNCHANGED <<poolVars, route>>

\* lines 124-142, the catch of the sub-range: ROLLBACK; when it throws too
\* (the connection is lost, the server aborts the transaction) the finally
\* of the sub-range runs and the outer catch ends the pass
Rollback(ok) ==
  /\ pc = "rollback"
  /\ db' = rollback(db, tx)
  /\ tx' = db'
  /\ hist' = [hist EXCEPT !.outcome = "rolledBack", !.wrote = (tx # db),
                          !.clean = FALSE]
  /\ IF ok
     THEN /\ pc' = forNext(startBlock, currentBlock)
          /\ startBlock' = startBlock + batchSize
          /\ client' = IF pc' = "idle" THEN outerFinally(innerFinally(client))
                       ELSE innerFinally(client)
     ELSE /\ pc' = outerCatch
          /\ client' = outerFinally(innerFinally(client))
          /\ UNCHANGED startBlock
  /\ UNCHANGED <<currentBlock, events, evIdx, blockTimestamps, passes>>
  /\ UNCHANGED <<poolVars, route>>

Next ==
  \/ \E queryOk \in BOOLEAN, headOk \in BOOLEAN, head \in Heads :
       StartPass(queryOk, headOk, head)
  \/ \E ok \in BOOLEAN : QueryEvents(ok)
  \/ \E failed \in SUBSET uniqueBlockNumbers : FetchTimestamps(failed)
  \/ \E connectOk \in BOOLEAN, beginOk \in BOOLEAN : BeginTx(connectOk, beginOk)
  \/ \E insertOk \in BOOLEAN, tokenUri \in UriReads, fail \in FailPoints :
       ProcessEvent(insertOk, tokenUri, fail)
  \/ \E ok \in BOOLEAN : Commit(ok)
  \/ \E ok \in BOOLEAN : Rollback(ok)

Spec == Init /\ [][Next]_vars

\* every await of a pass settles (the call answers, throws or times out), so
\* a pass that can take a step takes one
SpecLive == Init /\ [][Next]_vars /\ WF_vars(Next)

(***************************************************************************)
(* One sub-range on its own: the for-of loop of lines 90-121 with COMMIT   *)
(* and ROLLBACK, started right after BEGIN on tables that the scanner had  *)
(* built before (SeedTables) and on two logs of block LastBlock: a Buy of  *)
(* a free cell (OtherLog) and one of TestLogs, in either order.            *)
(***************************************************************************)
\* the tables after the logs 1..n of logs, tokenURI answering tokenUri
RECURSIVE applyLogs(_, _, _, _)
applyLogs(t, logs, n, tokenUri) ==
  IF n = 0 THEN t
  ELSE LET ev == logs[n]
           ts == BlockTime(ev.blockNumber)
           before == applyLogs(t, logs, n - 1, tokenUri)
       IN processEventLog(insertEvent(before, ev, ts), ev, ts, tokenUri, "none").db

\* no cell; cell (1, 2) of Alice, uri '' or set; cell (1, 2) of Bob after the
\* Update of Alice and the Transfer
SeedTables ==
  << EmptyDb,
     applyLogs(EmptyDb, ChainLog, 2, ""),
     applyLogs(EmptyDb, ChainLog, 2, "ipfs://1"),
     applyLogs(EmptyDb, ChainLog, 4, "ipfs://1") >>

Undecodable(log, how) == [log EXCEPT !.decoded = how]

OtherLog == Log(LastBlock, "0xs0", 0, "Buy", [buyer |-> Alice, x |-> 7, y |-> 8])

TestLogs ==
  << Log(LastBlock, "0xs1", 0, "Buy", [buyer |-> Bob, x |-> 3, y |-> 4]),
     Log(LastBlock, "0xs2", 0, "Buy", [buyer |-> Bob, x |-> 1, y |-> 2]),
     Log(LastBlock, "0xs3", 0, "Transfer",
         [from |-> AddressZero, to |-> Bob, tokenId |-> 102]),
     Log(LastBlock, "0xs4", 0, "Transfer", [from |-> Alice, to |-> Bob, tokenId |-> 102]),
     Log(LastBlock, "0xs5", 0, "Transfer", [from |-> Alice, to |-> Bob, tokenId |-> 304]),
     UpdateLog(LastBlock, "0xs6", 0, Alice, 1, 2, "ipfs://9"),
     Undecodable(UpdateLog(LastBlock, "0xs7", 0, Alice, 1, 2, "ipfs://9"), "raw"),
     UpdateLog(LastBlock, "0xs8", 0, Bob, 3, 4, "ipfs://9"),
     Log(LastBlock, "0xs9", 0, "BatchBuy",
         [buyer |-> Bob, x |-> <<3, 5>>, y |-> <<4, 6>>]),
     Log(LastBlock, "0xsa", 0, "Named",
         [user |-> Alice, name |-> [indexed |-> FALSE, hash |-> "", text |-> "alice"]]),
     Log(LastBlock, "0xsb", 0, "OwnershipTransferred",
         [previousOwner |-> Alice, newOwner |-> Bob]),
     Log(LastBlock, "0xsc", 0, "Approval", [owner |-> Alice]),
     Undecodable(Log(LastBlock, "0xsd", 0, "Buy", <<>>), "none"),
     Undecodable(Log(LastBlock, "0xse", 0, "BatchBuy", <<>>), "none"),
     Undecodable(Log(LastBlock, "0xsf", 0, "Transfer", <<>>), "none"),
     Undecodable(Log(LastBlock, "0xsg", 0, "Update", <<>>), "none"),
     Undecodable(Log(LastBlock, "0xsh", 0, "Named", <<>>), "none"),
     Undecodable(Log(LastBlock, "0xsi", 0, "OwnershipTransferred", <<>>), "none"),
     [Undecodable(UpdateLog(LastBlock, "0xsj", 0, Alice, 1, 2, "ipfs://9"), "none")
        EXCEPT !.data = SubSeq(@, 1, 2)],
     [Undecodable(UpdateLog(LastBlock, "0xsk", 0, Alice, 1, 2, "ipfs://9"), "none")
        EXCEPT !.topics = SubSeq(@, 1, 1)],
     Undecodable(UpdateLog(LastBlock, "0xsl", 0, Bob, 2, 1, "ipfs://8"), "raw") >>

InitSubRange ==
  /\ InitPool
  /\ \E s \in 1..Len(SeedTables), i \in 1..Len(TestLogs), first \in BOOLEAN :
       /\ db = SeedTables[s]
       /\ tx = SeedTables[s]
       /\ hist = [NoHist EXCEPT !.pre = SeedTables[s]]
       /\ events = IF first THEN <<TestLogs[i], OtherLog>> ELSE <<OtherLog, TestLogs[i]>>
  /\ pc = "events"
  /\ evIdx = 1
  /\ currentBlock = LastBlock
  /\ startBlock = LastBlock
  /\ blockTimestamps = [bn \in {LastBlock} |-> BlockTime(bn)]
  /\ passes = MaxPasses
  /\ client = connect([NoClient EXCEPT !.watermark = watermarkClient(TRUE)])
  /\ route = NoRoute

NextSubRange ==
  \/ \E insertOk \in BOOLEAN, tokenUri \in UriReads, fail \in FailPoints :
       ProcessEvent(insertOk, tokenUri, fail)
  \/ \E ok \in BOOLEAN : Commit(ok)
  \/ \E ok \in BOOLEAN : Rollback(ok)

SpecSubRange == InitSubRange /\ [][NextSubRange]_vars

(***************************************************************************)
(* A start of the server on tables that an earlier run of it has           *)
(* committed: the scanner has processed block genesis (the mint and the    *)
(* Buy of cell (1, 2)), contract.tokenURI having answered either way; the  *)
(* variables of the process are those of a fresh start.                    *)
(***************************************************************************)
RestartTables == {applyLogs(EmptyDb, ChainLog, 2, tokenUri) : tokenUri \in UriReads}

InitRestart ==
  /\ InitPool
  /\ db \in RestartTables
  /\ tx = db
  /\ pc = "idle"
  /\ currentBlock = defaultStartBlock
  /\ startBlock = defaultStartBlock
  /\ events = <<>>
  /\ evIdx = 1
  /\ blockTimestamps = <<>>
  /\ passes = 0
  /\ client = NoClient
  /\ hist = NoHist
  /\ route = NoRoute

SpecRestart == InitRestart /\ [][Next]_vars

(***************************************************************************)
(* The pixel update routes of routes/pixels-update.js (POST / for a batch, *)
(* POST /:x/:y for one cell) beside one sub-range of the scanner.  Both    *)
(* work in a transaction of their own on a client of the same pool, under  *)
(* the READ COMMITTED default of PostgreSQL: a SELECT sees what is         *)
(* committed when it runs, an UPDATE of a row that another open            *)
(* transaction has written waits for that transaction to end and then      *)
(* works on the row as it was committed.  db is the committed state, tx    *)
(* what the scanner sees (db and its own writes); the writes of the        *)
(* request reach db, and the view of the scanner, at its COMMIT.           *)
(***************************************************************************)
\* SQL NULL in a text column and in an integer column
NullText == "NULL"
NullInt == -1

RouteImage == "data:image/png;base64,AAAA"

\* the requests: the address of the body and the pixels (one for POST /:x/:y)
RouteAddresses == {Alice, toLowerCase(Alice), Bob}
RoutePixels == {<< <<1, 2>> >>, << <<1, 2>>, <<3, 4>> >>, << <<0, 2>> >>}

\* lines 18-33 of the batch route (a coordinate 0 is falsy and rejected) and
\* validateCoords of the single route
validPixels(kind, pixels) ==
  /\ Len(pixels) > 0
  /\ \A i \in 1..Len(pixels) :
       /\ kind = "batch" => pixels[i][1] # 0 /\ pixels[i][2] # 0
       /\ pixels[i][1] \in 0..(GRID_WIDTH - 1)
       /\ pixels[i][2] \in 0..(GRID_WIDTH - 1)

\* a transaction of the scanner is open
txOpen == pc \in {"events", "commit", "rollback"}

cellsOf(pixels) == {pixels[i] : i \in 1..Len(pixels)}

\* the pixel_blocks rows that the open transaction of the scanner has written
scannerHolds(k) ==
  /\ txOpen
  /\ k \in DOMAIN tx.pixel_blocks
  /\ k \in DOMAIN db.pixel_blocks => tx.pixel_blocks[k] # db.pixel_blocks[k]

\* the pixel_blocks rows that the open transaction of the request has written
routeHolds(k) == route.pc \in {"history", "commit"} /\ k \in cellsOf(route.pixels)

\* the pixel_blocks rows that the statements of the handler of log ev write
cellsWritten(ev) ==
  IF ev.event = "Update"
  THEN LET d == decodeUpdate(ev) IN IF d.ok THEN {<<d.xCoord, d.yCoord>>} ELSE {}
  ELSE IF undecoded(ev) THEN {}
  ELSE CASE ev.event = "Buy" -> {<<ev.args.x, ev.args.y>>}
         [] ev.event = "BatchBuy" ->
              {<<ev.args.x[i], ev.args.y[i]>> : i \in 1..Len(ev.args.x)}
         [] ev.event = "Transfer" ->
              {<<convertTokenIdToXY(ev.args.tokenId).x,
                 convertTokenIdToXY(ev.args.tokenId).y>>}
         [] OTHER -> {}

\* lines 52-68 and 140-154: the rows of the SELECT on the committed tables
\* t, 404 when a pixel has no row, 403 when a row is not of address
checkOwnership(t, address, pixels) ==
  LET rows == cellsOf(pixels) \cap DOMAIN t.pixel_blocks
  IN IF Cardinality(rows) # Len(pixels) THEN 404
     ELSE IF \E k \in rows :
               toLowerCase(t.pixel_blocks[k].current_owner) # toLowerCase(address)
          THEN 403
          ELSE 0

\* lines 72-82 and 158-165: UPDATE pixel_blocks SET uri = $1, updated_at = $2
\* WHERE x = $3 AND y = $4, once per pixel
routeUpdate(t, address, pixels, image) ==
  [t EXCEPT !.pixel_blocks =
     [k \in DOMAIN @ |->
        IF k \in cellsOf(pixels)
        THEN [@[k] EXCEPT !.uri = image, !.updated_at = WallClock]
        ELSE @[k]]]

\* lines 86-94 and 168-172: INSERT INTO pixel_block_uri_history (x, y, uri,
\* owner, timestamp), one row per pixel
RECURSIVE routeHistory(_, _, _, _, _)
routeHistory(t, address, pixels, image, n) ==
  IF n = 0 THEN t
  ELSE [routeHistory(t, address, pixels, image, n - 1) EXCEPT
          !.pixel_block_uri_history = Append(@,
             [x |-> pixels[n][1], y |-> pixels[n][2], uri |-> image,
              owner |-> address, timestamp |-> WallClock,
              transaction_hash |-> NullText, block_number |-> NullInt])]

\* what the COMMIT of the request makes of the tables t
routeWrites(t, r) ==
  routeHistory(routeUpdate(t, r.address, r.pixels, r.image),
               r.address, r.pixels, r.image, Len(r.pixels))

\* lines 12-39 and 125-134: the validation, pool.connect and BEGIN
RouteBegin(kind, address, pixels) ==
  /\ route.pc = "idle"
  /\ kind = "single" => Len(pixels) = 1
  /\ route' = IF validPixels(kind, pixels)
              THEN [pc |-> "check", kind |-> kind, address |-> address,
                    pixels |-> pixels, image |-> RouteImage, status |-> 0]
              ELSE [pc |-> "done", kind |-> kind, address |-> address,
                    pixels |-> pixels, image |-> RouteImage, status |-> 400]
  /\ UNCHANGED <<poolVars, scanVars>>

\* lines 41-68 and 136-154: the SELECT and the two tests on its rows, with
\* ROLLBACK and the answer when one fails
RouteCheck ==
  /\ route.pc = "check"
  /\ LET status == checkOwnership(db, route.address, route.pixels)
     IN route' = IF status = 0 THEN [route EXCEPT !.pc = "update"]
                 ELSE [route EXCEPT !.pc = "done", !.status = status]
  /\ UNCHANGED <<poolVars, scanVars>>

\* lines 70-82 and 156-165: the UPDATEs; they wait while the scanner holds a
\* row of theirs; a statement that throws goes to the catch (ROLLBACK, 500)
RouteUpdate(ok) ==
  /\ route.pc = "update"
  /\ \A k \in cellsOf(route.pixels) : ~scannerHolds(k)
  /\ route' = IF ok THEN [route EXCEPT !.pc = "history"]
              ELSE [route EXCEPT !.pc = "done", !.status = 500]
  /\ UNCHANGED <<poolVars, scanVars>>

\* lines 85-94 and 167-172: the INSERT of the history rows
RouteHistory(ok) ==
  /\ route.pc = "history"
  /\ route' = IF ok THEN [route EXCEPT !.pc = "commit"]
              ELSE [route EXCEPT !.pc = "done", !.status = 500]
  /\ UNCHANGED <<poolVars, scanVars>>

\* lines 96-107 and 174-187: COMMIT and the answer
RouteCommit(ok) ==
  /\ route.pc = "commit"
  /\ IF ok
     THEN /\ db' = routeWrites(db, route)
          /\ tx' = routeWrites(tx, route)
          /\ route' = [route EXCEPT !.pc = "done", !.status = 200]
     ELSE /\ route' = [route EXCEPT !.pc = "done", !.status = 500]
          /\ UNCHANGED <<db, tx>>
  /\ UNCHANGED <<pc, currentBlock, startBlock, events, evIdx, blockTimestamps,
                 passes, client, hist>>
  /\ UNCHANGED poolVars

\* a turn of the for-of loop of the scanner; its statements wait while the
\* request holds a row of theirs
ScannerTurn(insertOk, tokenUri, fail) ==
  /\ pc = "events"
  /\ \A k \in cellsWritten(events[evIdx]) : ~routeHolds(k)
  /\ ProcessEvent(insertOk, tokenUri, fail)

\* cell (1, 2) of Alice; the sub-range of the scanner holds the Transfer of
\* the cell to Bob or the Update of its uri by Alice, and the Buy of OtherLog
InitRoute ==
  /\ InitPool
  /\ \E s \in {2, 3}, i \in {4, 6}, first \in BOOLEAN :
       /\ db = SeedTables[s]
       /\ tx = SeedTables[s]
       /\ hist = [NoHist EXCEPT !.pre = SeedTables[s]]
       /\ events = IF first THEN <<TestLogs[i], OtherLog>> ELSE <<OtherLog, TestLogs[i]>>
  /\ pc = "events"
  /\ evIdx = 1
  /\ currentBlock = LastBlock
  /\ startBlock = LastBlock
  /\ blockTimestamps = [bn \in {LastBlock} |-> BlockTime(bn)]
  /\ passes = MaxPasses
  /\ client = connect([NoClient EXCEPT !.watermark = watermarkClient(TRUE)])
  /\ route = NoRoute

NextRoute ==
  \/ \E insertOk \in BOOLEAN, tokenUri \in UriReads, fail \in FailPoints :
       ScannerTurn(insertOk, tokenUri, fail)
  \/ \E ok \in BOOLEAN : Commit(ok)
  \/ \E ok \in BOOLEAN : Rollback(ok)
  \/ \E kind \in {"single", "batch"}, address \in RouteAddresses, pixels \in RoutePixels :
       RouteBegin(kind, address, pixels)
  \/ RouteCheck
  \/ \E ok \in BOOLEAN : RouteUpdate(ok)
  \/ \E ok \in BOOLEAN : RouteHistory(ok)
  \/ \E ok \in BOOLEAN : RouteCommit(ok)

SpecRoute == InitRoute /\ [][NextRoute]_vars



(***************************************************************************)
(* Properties of the provider pool.                                        *)
(***************************************************************************)

\* call c has just recorded the failure of an attempt, with this error
FailsWith(c, error) ==
  /\ calls[c].pc = "calling"
  /\ calls'[c].failAt = calls[c].totalAttempts
  /\ calls'[c].failAt # calls[c].failAt
  /\ calls'[c].failErr = error

\* C5: executeWithRetry terminates within its budget: it never makes more than
\* MAX_RETRIES * N attempts and a call that is under way can always take its next
\* step; a call that returned made no attempt after its first successful one (all
\* the attempts before it failed); a call that raised a provider-class error made
\* all MAX_RETRIES * N attempts and raised the error of the last of them.
C5_BoundedAttempts ==
  \A c \in Calls :
    LET k == calls[c]
    IN /\ k.totalAttempts <= maxTotalAttempts
       /\ k.pc \in {"calling", "sleeping"} => ENABLED CallStep(c)
       /\ k.pc = "done" <=> k.outcome # "none"
       /\ k.outcome = "returned" =>
            k.okAt = k.totalAttempts /\ k.failAt = k.okAt - 1
       /\ k.outcome = "raised" /\ isProviderError(k.raised) =>
            /\ k.totalAttempts = maxTotalAttempts
            /\ k.failAt = k.totalAttempts
            /\ k.raised = k.failErr

\* C5 witness: one call used up its budget and raised, another returned after a
\* failed attempt.
C5_Witness ==
  \E c, d \in Calls :
    /\ calls[c].outcome = "raised" /\ calls[c].totalAttempts = maxTotalAttempts
    /\ calls[c].raised = TimeoutError
    /\ calls[d].outcome = "returned" /\ calls[d].okAt > 1

\* C6: an attempt that fails with a non-provider-class error ends the call at once
\* with that error: no further attempt, no backoff wait, and the cursor
\* (currentProviderIndex, lastProviderSwitch, provider) is unchanged.
C6_NonProviderErrorPropagates ==
  [][\A c \in Calls :
       FailsWith(c, DecodeError) =>
         /\ calls'[c].pc = "done"
         /\ calls'[c].outcome = "raised"
         /\ calls'[c].raised = DecodeError
         /\ calls'[c].totalAttempts = calls[c].totalAttempts
         /\ calls'[c].delay = 0
         /\ UNCHANGED <<currentProviderIndex, lastProviderSwitch, provider, now>>]_vars

\* C6 witness: a call raised the non-provider-class error on a retry.
C6_Witness ==
  \E c \in Calls :
    /\ calls[c].outcome = "raised" /\ calls[c].raised = DecodeError
    /\ calls[c].totalAttempts = 2

\* C7: once a rotation was refused (the retries on the endpoint are used up and the
\* cooldown has not elapsed), the call has failed: it is over, it raised, and it made
\* no attempt after the refusal.
C7_RefusedRotationFails ==
  \A c \in Calls :
    calls[c].refusedAt # 0 =>
      /\ calls[c].pc = "done"
      /\ calls[c].outcome = "raised"
      /\ calls[c].totalAttempts = calls[c].refusedAt

\* C8: 0 <= currentProviderIndex < N always; a change of currentProviderIndex that
\* is not forceProviderSwitch's is one step to (index + 1) mod N, made at least
\* MIN_SWITCH_INTERVAL after the previous automatic one, whatever the calls in flight.
C8_SingleStepPerInterval ==
  /\ [](currentProviderIndex \in 0..(Len(endpoints) - 1))
  /\ [][(currentProviderIndex' # currentProviderIndex /\ forced' = forced) =>
          /\ currentProviderIndex' = (currentProviderIndex + 1) % Len(endpoints)
          /\ autoAt = 0 \/ now - autoAt >= MIN_SWITCH_INTERVAL
          /\ autoAt' = now]_vars

\* C8 witness: a second automatic rotation has happened, with two calls in flight.
C8_Witness ==
  /\ autoAt > MIN_SWITCH_INTERVAL
  /\ forced = 0
  /\ currentProviderIndex = 2
  /\ \A c \in Calls : calls[c].pc = "calling" /\ calls[c].totalAttempts > MAX_RETRIES

\* C9: the MAX_RETRIES-th consecutive rate-limit failure of a call on the active
\* endpoint, with the cooldown elapsed, moves currentProviderIndex by exactly one
\* (mod N) and leaves getProviderStats().totalEndpoints as it was.
C9_RateLimitRotatesOnce ==
  [][\A c \in Calls :
       (/\ FailsWith(c, RateLimitError)
        /\ calls[c].streak = MAX_RETRIES - 1
        /\ calls[c].cur = currentProviderIndex
        /\ now - lastProviderSwitch >= MIN_SWITCH_INTERVAL) =>
         /\ currentProviderIndex' = (currentProviderIndex + 1) % Len(endpoints)
         /\ getProviderStats'.currentIndex = currentProviderIndex'
         /\ getProviderStats'.totalEndpoints = getProviderStats.totalEndpoints]_vars

\* C9 witness: a call rotated the pool after MAX_RETRIES rate-limit failures in a row.
C9_Witness ==
  \E c \in Calls :
    /\ calls[c].rlRotated
    /\ calls[c].totalAttempts = MAX_RETRIES + 1
    /\ currentProviderIndex = 1

\* C10: a call that raised with its budget used up has attempted every endpoint,
\* MAX_RETRIES times each.
C10_ExhaustedTriedAll ==
  \A c \in Calls :
    (calls[c].outcome = "raised" /\ calls[c].totalAttempts = maxTotalAttempts) =>
      \A i \in 0..(Len(endpoints) - 1) : calls[c].tried[i] = MAX_RETRIES

\* C11: forceProviderSwitch rotates whatever the time since the last
\* rotation: it returns true, moves currentProviderIndex to (index + 1) mod N,
\* binds the provider to it and records the time in lastProviderSwitch; the
\* recorded time never goes back, and an automatic rotation happens only
\* MIN_SWITCH_INTERVAL or more after the recorded time, so that it is refused
\* during the interval that follows a forced rotation.
C11_ForceAlwaysRotates ==
  /\ [][forced' # forced =>
          /\ switchToNextProvider(currentProviderIndex, 0, now, Len(endpoints)).ok
          /\ currentProviderIndex' = (currentProviderIndex + 1) % Len(endpoints)
          /\ provider' = currentProviderIndex'
          /\ lastProviderSwitch' = now]_vars
  /\ [][lastProviderSwitch' >= lastProviderSwitch]_vars
  /\ [][(currentProviderIndex' # currentProviderIndex /\ forced' = forced) =>
          now - lastProviderSwitch >= MIN_SWITCH_INTERVAL]_vars

\* C11 witness: a forced rotation made at the very time of an automatic one
\* (inside its cooldown) has moved the cursor a second step
C11_Witness ==
  /\ forced = 1
  /\ now = MIN_SWITCH_INTERVAL
  /\ autoAt = now
  /\ lastProviderSwitch = now
  /\ currentProviderIndex = 2

(***************************************************************************)
(* Properties of the scanner.                                              *)
(***************************************************************************)

\* the events row of log ev is in the tables d
hasEventRow(d, ev) ==
  \E r \in d.events : /\ r.transaction_hash = ev.transactionHash
                      /\ r.log_index = ev.logIndex
                      /\ r.block_number = ev.blockNumber

\* C12: the scanner takes a chain call of a pass (provider.getBlockNumber,
\* contract.queryFilter, provider.getBlock) as failed only after the
\* MAX_RETRIES attempts of executeWithRetry on the active endpoint
C12_ScannerCallsAreRetried ==
  hist.rpcTries # 0 => hist.rpcTries >= MAX_RETRIES

\* C1: when a sub-range has ended (its transaction committed or rolled
\* back): if anything of it threw (the INSERT of a log, its dispatch, or the
\* BEGIN or COMMIT around them), the committed tables are those of before its
\* BEGIN, so no row and no write of it is committed, those of the logs before
\* the failing one included; if nothing threw, the committed tables are the
\* ones its transaction built, with the events row of every log of it
C1_SubRangeAtomic ==
  hist.outcome # "none" =>
    IF hist.raised
    THEN hist.outcome = "rolledBack" /\ db = hist.pre
    ELSE /\ hist.outcome = "committed"
         /\ db = tx
         /\ \A i \in 1..Len(events) : hasEventRow(db, events[i])

\* a sub-range whose second or later log threw, after its transaction had
\* written, has been rolled back
C1_Witness ==
  /\ hist.outcome = "rolledBack"
  /\ hist.raised
  /\ hist.wrote
  /\ evIdx >= 2

\* a turn of the for-of loop that ran to its end: the log at evIdx has been
\* inserted and dispatched and nothing threw
turnDone == pc = "events" /\ evIdx' = evIdx + 1

\* C13: a turn that processed a Buy log (x, y in 0..99) without a throw
\* leaves, in the tables of the transaction, the pixel_blocks row (x, y) with
\* current_owner the buyer, and pixel_block_owners as it was with exactly one
\* row appended: (x, y, buyer) with the transaction hash and the block number
\* of the log; the row (x, y) may or may not have existed before the turn
C13_BuySetsOwnerAndAppendsRecord ==
  [][ (turnDone /\ events[evIdx].event = "Buy") =>
        LET ev == events[evIdx]
            k == <<ev.args.x, ev.args.y>>
            n == Len(tx.pixel_block_owners)
        IN /\ ev.args.x \in 0..(GRID_WIDTH - 1) /\ ev.args.y \in 0..(GRID_WIDTH - 1)
           /\ k \in DOMAIN tx'.pixel_blocks
           /\ tx'.pixel_blocks[k].current_owner = ev.args.buyer
           /\ Len(tx'.pixel_block_owners) = n + 1
           /\ SubSeq(tx'.pixel_block_owners, 1, n) = tx.pixel_block_owners
           /\ LET row == tx'.pixel_block_owners[n + 1]
              IN /\ row.x = ev.args.x /\ row.y = ev.args.y
                 /\ row.owner = ev.args.buyer
                 /\ row.transaction_hash = ev.transactionHash
                 /\ row.block_number = ev.blockNumber ]_vars

\* the Buy of cell (1, 2) by Bob has been processed in a transaction that
\* began with the cell owned by Alice, and has added one ownership row
C13_Witness ==
  /\ pc = "events" /\ evIdx = 2
  /\ events[1].transactionHash = "0xs2" /\ events[1].event = "Buy"
  /\ <<1, 2>> \in DOMAIN hist.pre.pixel_blocks
  /\ hist.pre.pixel_blocks[<<1, 2>>].current_owner = Alice
  /\ tx.pixel_blocks[<<1, 2>>].current_owner = Bob
  /\ Len(tx.pixel_block_owners) = Len(hist.pre.pixel_block_owners) + 1

\* C14: a turn that processed a Transfer from the zero address, for a cell
\* stored with a non-empty uri, leaves the uri non-empty; when tokenURI gave
\* the empty string (its answer, or the fallback of a failed call) the stored
\* uri is kept, and current_owner and timestamp are still those of the log
C14_MintKeepsStoredUri ==
  [][ (/\ turnDone
       /\ events[evIdx].event = "Transfer"
       /\ events[evIdx].args.from = AddressZero) =>
        LET ev == events[evIdx]
            xy == convertTokenIdToXY(ev.args.tokenId)
            k == <<xy.x, xy.y>>
        IN (k \in DOMAIN tx.pixel_blocks /\ tx.pixel_blocks[k].uri # "") =>
             /\ tx'.pixel_blocks[k].uri # ""
             /\ fetchTokenUri(hist'.step.tokenUri) = "" =>
                  /\ tx'.pixel_blocks[k].uri = tx.pixel_blocks[k].uri
                  /\ tx'.pixel_blocks[k].current_owner = ev.args.to
                  /\ tx'.pixel_blocks[k].timestamp = blockTimestamps[ev.blockNumber] ]_vars

\* the mint of token 102 to Bob has been processed with an empty tokenURI
\* on a cell that Alice held with a uri: the uri is kept, the owner is Bob
C14_Witness ==
  /\ pc = "events" /\ evIdx = 2
  /\ events[1].transactionHash = "0xs3"
  /\ hist.step.tokenUri = ""
  /\ <<1, 2>> \in DOMAIN hist.pre.pixel_blocks
  /\ hist.pre.pixel_blocks[<<1, 2>>].uri # ""
  /\ hist.pre.pixel_blocks[<<1, 2>>].current_owner = Alice
  /\ tx.pixel_blocks[<<1, 2>>].uri = hist.pre.pixel_blocks[<<1, 2>>].uri
  /\ tx.pixel_blocks[<<1, 2>>].current_owner = Bob
  /\ tx.pixel_blocks[<<1, 2>>].timestamp = LastBlock

\* log ev is a Transfer from a holder (not the zero address) for a
\* coordinate that has no pixel_blocks row in the tables t
orphanTransfer(ev, t) ==
  /\ ev.event = "Transfer" /\ ~undecoded(ev)
  /\ ev.args.from # AddressZero
  /\ LET xy == convertTokenIdToXY(ev.args.tokenId)
     IN <<xy.x, xy.y>> \notin DOMAIN t.pixel_blocks

\* C15: a turn on a regular Transfer for a coordinate without a pixel_blocks
\* row, in which no statement fails for a reason of its own (the INSERT into
\* events succeeds, no connection or server failure), does not throw: the
\* sub-range is not sent to its rollback by this log
C15_OrphanTransferDoesNotAbort ==
  ~ /\ pc = "rollback"
    /\ evIdx <= Len(events)
    /\ hist.raised
    /\ hist.step.insertOk /\ hist.step.fail = "none"
    /\ orphanTransfer(events[evIdx], tx)

\* C16: in the committed tables every pixel_block_owners row and every
\* pixel_block_uri_history row has a pixel_blocks row with its (x, y)
C16_HistoryRowsHaveCell ==
  /\ \A i \in 1..Len(db.pixel_block_owners) :
       <<db.pixel_block_owners[i].x, db.pixel_block_owners[i].y>>
         \in DOMAIN db.pixel_blocks
  /\ \A i \in 1..Len(db.pixel_block_uri_history) :
       <<db.pixel_block_uri_history[i].x, db.pixel_block_uri_history[i].y>>
         \in DOMAIN db.pixel_blocks

\* a sub-range has been committed that added a row to each history table
\* and a pixel_blocks row
C16_Witness ==
  /\ hist.outcome = "committed"
  /\ Len(db.pixel_block_owners) > Len(hist.pre.pixel_block_owners)
  /\ Len(db.pixel_block_uri_history) > Len(hist.pre.pixel_block_uri_history)
  /\ DOMAIN db.pixel_blocks # DOMAIN hist.pre.pixel_blocks

\* log ev is an Update whose arguments were read (by the ABI or from the raw
\* data) and whose UPDATE matches no row of the tables t: the coordinate has
\* no pixel_blocks row, or its current_owner is not the updater
unmatchedUpdate(ev, t) ==
  /\ ev.event = "Update" /\ ev.decoded # "none"
  /\ LET k == <<ev.args.x, ev.args.y>>
     IN \/ k \notin DOMAIN t.pixel_blocks
        \/ t.pixel_blocks[k].current_owner # ev.args.owner

\* C17: a turn on an Update whose updater is not the stored current_owner,
\* or whose coordinate has no pixel_blocks row, leaves pixel_blocks as it
\* was (whatever the turn does after the UPDATE), and the UPDATE itself is
\* a statement that succeeds with zero rows: when the row exists and no
\* statement fails for a reason of its own, the turn ends without a throw
C17_UnmatchedUpdateChangesNoCell ==
  [][ (/\ pc = "events"
       /\ hist'.step.insertOk
       /\ unmatchedUpdate(events[evIdx], tx)) =>
        LET ev == events[evIdx]
            k == <<ev.args.x, ev.args.y>>
        IN /\ tx'.pixel_blocks = tx.pixel_blocks
           /\ updatePixelBlockUri(tx, ev.args.x, ev.args.y, ev.args.tokenURI,
                                  blockTimestamps[ev.blockNumber], ev.args.owner) = tx
           /\ (k \in DOMAIN tx.pixel_blocks /\ hist'.step.fail = "none") =>
                 turnDone ]_vars

\* the Update of cell (1, 2) by Alice has been processed in a transaction
\* that began with the cell owned by Bob: no cell changed, nothing threw
C17_Witness ==
  /\ pc = "events" /\ evIdx = 2
  /\ events[1].transactionHash = "0xs6"
  /\ <<1, 2>> \in DOMAIN hist.pre.pixel_blocks
  /\ hist.pre.pixel_blocks[<<1, 2>>].current_owner = Bob
  /\ events[1].args.owner = Alice
  /\ tx.pixel_blocks = hist.pre.pixel_blocks
  /\ ~hist.raised

\* C18: a turn on an Update whose arguments were read, in which no statement
\* fails for a reason of its own, does not throw, also when its UPDATE
\* matched no row: the history row is appended and the sub-range is not sent
\* to its rollback by this log
C18_UpdateAlwaysAppendsRecord ==
  ~ /\ pc = "rollback"
    /\ evIdx <= Len(events)
    /\ hist.raised
    /\ hist.step.insertOk /\ hist.step.fail = "none"
    /\ unmatchedUpdate(events[evIdx], tx)

\* a statement of the handler of log ev fails on the tables t although the
\* database takes it: the INSERT of a history row for a coordinate that has
\* no pixel_blocks row
foreignKeyFails(ev, t) ==
  \/ orphanTransfer(ev, t)
  \/ /\ ev.event = "Update" /\ ev.decoded # "none"
     /\ <<ev.args.x, ev.args.y>> \notin DOMAIN t.pixel_blocks

\* C19: a turn in which a statement of handleBuyEvent, handleTransferEvent,
\* handleUpdateEvent or handleNamedEvent fails (the database refuses it, or
\* a foreign key does) throws out of the handler and out of processEventLog
\* into the catch of the sub-range; from there the transaction is rolled back
\* and the committed tables are those of before its BEGIN.  What a handler
\* lets pass is an UPDATE of zero rows: with no failing statement, the Update
\* by another address than the owner of an existing cell ends its turn
C19_WriteFailureRollsBack ==
  /\ [][ (/\ pc = "events"
           /\ hist'.step.insertOk
           /\ \/ hist'.step.fail # "none"
              \/ foreignKeyFails(events[evIdx], tx)) =>
            (pc' = "rollback" /\ hist'.raised /\ evIdx' = evIdx) ]_vars
  /\ [][ pc = "rollback" =>
            (db' = hist.pre /\ tx' = db' /\ hist'.outcome = "rolledBack") ]_vars
  /\ [][ (/\ pc = "events"
           /\ hist'.step.insertOk /\ hist'.step.fail = "none"
           /\ unmatchedUpdate(events[evIdx], tx)
           /\ ~foreignKeyFails(events[evIdx], tx)) => turnDone ]_vars

\* the second log of a sub-range is an Update by the owner of an existing
\* cell; a statement of its handler failed, and the sub-range has been rolled
\* back: the events row of its first log is not in the committed tables
C19_Witness ==
  /\ hist.outcome = "rolledBack" /\ hist.raised
  /\ evIdx = 2
  /\ events[2].event = "Update" /\ events[2].decoded = "abi"
  /\ ~unmatchedUpdate(events[2], hist.pre)
  /\ hist.step.insertOk /\ hist.step.fail = "w2"
  /\ ~hasEventRow(db, events[1])
  /\ db = hist.pre

\* C20: a turn on a log whose arguments cannot be decoded, of any event
\* kind, whose INSERT into events succeeded, does not throw: the sub-range is
\* not sent to its rollback by this log
C20_UndecodableLogSkippedAlone ==
  ~ /\ pc = "rollback"
    /\ evIdx <= Len(events)
    /\ hist.raised
    /\ hist.step.insertOk
    /\ events[evIdx].decoded = "none"

\* log ev is an Update that neither the named access to args nor the raw
\* decoding of topics and data can read
bothDecodesFail(ev) == ev.event = "Update" /\ ~decodeUpdate(ev).ok

\* C21: a turn on an Update log whose two decodings both fail, after its
\* INSERT into events succeeded, ends without a throw; it leaves the events
\* row of the log in the transaction and changes no pixel_blocks row and no
\* history row.  When the sub-range of such a log commits, the events row of
\* every log of it and the writes of its other logs are committed
C21_DoubleDecodeFailureSkipsEvent ==
  /\ [][ (/\ pc = "events"
           /\ hist'.step.insertOk
           /\ bothDecodesFail(events[evIdx])) =>
            /\ turnDone
            /\ ~hist'.raised
            /\ hasEventRow(tx', events[evIdx])
            /\ tx'.pixel_blocks = tx.pixel_blocks
            /\ tx'.pixel_block_uri_history = tx.pixel_block_uri_history
            /\ tx'.pixel_block_owners = tx.pixel_block_owners
            /\ tx'.users = tx.users ]_vars
  /\ [] ( (/\ hist.outcome = "committed"
            /\ \E i \in 1..Len(events) : bothDecodesFail(events[i])) =>
             /\ \A i \in 1..Len(events) : hasEventRow(db, events[i])
             /\ \A i \in 1..Len(events) :
                  events[i].event = "Buy" /\ ~undecoded(events[i]) =>
                    /\ <<events[i].args.x, events[i].args.y>> \in DOMAIN db.pixel_blocks
                    /\ db.pixel_blocks[<<events[i].args.x, events[i].args.y>>].current_owner
                         = events[i].args.buyer )

\* a sub-range whose first log is an Update with a truncated data, unreadable
\* both ways, has committed: its events row is there, nothing of it in the uri
\* history, and the Buy after it has made its pixel_blocks row
C21_Witness ==
  /\ hist.outcome = "committed"
  /\ events[1].transactionHash = "0xsj"
  /\ bothDecodesFail(events[1])
  /\ hasEventRow(db, events[1])
  /\ db.pixel_block_uri_history = hist.pre.pixel_block_uri_history
  /\ <<7, 8>> \in DOMAIN db.pixel_blocks
  /\ <<7, 8>> \notin DOMAIN hist.pre.pixel_blocks

C23_NamedUpsertsOrSkips ==
  ~ /\ pc = "rollback"
    /\ evIdx <= Len(events)
    /\ hist.raised
    /\ hist.step.insertOk /\ hist.step.fail = "none"
    /\ events[evIdx].event = "Named"
    /\ ~undecoded(events[evIdx])
    /\ validUser(events[evIdx].args.user)

\* C24: at the start of a pass getLastProcessedBlock returns the greatest
\* block_number of the committed events rows when its query succeeds and
\* there is a row, and genesis - 1 = 1954819 when there is no row or the
\* query fails; the step changes no table, and the first sub-range of the
\* pass starts at the block after the returned one
C24_ResumeBlock ==
  [][ passes' = passes + 1 =>
        /\ IF hist'.queryOk /\ db.events # {}
           THEN /\ \E r \in db.events : r.block_number = hist'.lastBlock
                /\ \A r \in db.events : r.block_number <= hist'.lastBlock
           ELSE /\ hist'.lastBlock = ARBITRUM_NOVA_GENESIS_BLOCK - 1
                /\ hist'.lastBlock = 1954819
        /\ db' = db /\ tx' = tx
        /\ pc' = "query" => startBlock' = hist'.lastBlock + 1 ]_vars

\* a second pass has started on committed events rows of two blocks, its
\* query succeeded and it resumes after the later block
C24_Witness ==
  /\ passes = 2 /\ pc = "query"
  /\ hist.queryOk
  /\ \E r \in db.events : r.block_number = ARBITRUM_NOVA_GENESIS_BLOCK
  /\ \E r \in db.events : r.block_number = ARBITRUM_NOVA_GENESIS_BLOCK + 1
  /\ hist.lastBlock = ARBITRUM_NOVA_GENESIS_BLOCK + 1
  /\ startBlock = ARBITRUM_NOVA_GENESIS_BLOCK + 2

\* C25: whatever fails inside a pass (the head fetch, a log query, a
\* timestamp fetch, pool.connect, BEGIN, an INSERT, the dispatch of a log,
\* COMMIT or ROLLBACK), no error leaves processEventsFromLastBlock and the
\* pass comes to its end (the scanner is idle again); the committed tables
\* change only by the COMMIT of a sub-range in which nothing threw, and then
\* they hold the events row of every log of that sub-range
C25_PassNeverThrows ==
  /\ [](pc \in {"idle", "query", "timestamps", "begin", "events", "commit", "rollback"})
  /\ [](pc # "idle" => <>(pc = "idle"))
  /\ [][ db' # db =>
            /\ pc = "commit" /\ ~hist.raised
            /\ db' = tx
            /\ \A i \in 1..Len(events) : hasEventRow(db', events[i]) ]_vars

\* a pass has ended through the outer catch, after the ROLLBACK of its
\* second sub-range threw; the first sub-range of the pass stays committed
C25_Witness ==
  /\ pc = "idle" /\ passes = 1
  /\ hist.outcome = "rolledBack" /\ hist.raised
  /\ startBlock <= currentBlock
  /\ db.events # {}
  /\ db = hist.pre

\* the rows of a history table stand in the order of the blocks of their logs
inBlockOrder(rows) ==
  \A i \in 1..Len(rows) : \A j \in i..Len(rows) :
    rows[i].block_number <= rows[j].block_number

\* the history table after is the table before with rows appended
extends(after, before) ==
  /\ Len(after) >= Len(before)
  /\ SubSeq(after, 1, Len(before)) = before

\* C26: over the passes the committed pixel_block_owners and
\* pixel_block_uri_history only get rows appended (no row of them is changed
\* or removed), and their rows stand in the order of their chain events: no
\* row of an earlier block comes after a row of a later block
C26_HistoryAppendOnlyInChainOrder ==
  /\ [][ /\ extends(db'.pixel_block_owners, db.pixel_block_owners)
         /\ extends(db'.pixel_block_uri_history, db.pixel_block_uri_history) ]_vars
  /\ [](inBlockOrder(db.pixel_block_owners) /\ inBlockOrder(db.pixel_block_uri_history))

\* every pixel_blocks row of the tables before is a row of the tables after,
\* with the created_at it had
keepsCells(after, before) ==
  \A k \in DOMAIN before.pixel_blocks :
    /\ k \in DOMAIN after.pixel_blocks
    /\ after.pixel_blocks[k].created_at = before.pixel_blocks[k].created_at

\* log ev makes the pixel_blocks row of coordinate k when there is none: a
\* Buy of k, a BatchBuy that holds k, or a Transfer of its token from the
\* zero address
createsCell(ev, k) ==
  /\ ~undecoded(ev)
  /\ \/ ev.event = "Buy" /\ k = <<ev.args.x, ev.args.y>>
     \/ /\ ev.event = "BatchBuy"
        /\ \E i \in 1..Len(ev.args.x) : k = <<ev.args.x[i], ev.args.y[i]>>
     \/ /\ ev.event = "Transfer" /\ ev.args.from = AddressZero
        /\ k = <<convertTokenIdToXY(ev.args.tokenId).x,
                 convertTokenIdToXY(ev.args.tokenId).y>>

\* C27: pixel_blocks holds one row for a coordinate (it is keyed by (x, y));
\* a turn of the loop, whatever its log and whether it throws or not, keeps
\* every row that the transaction holds and its created_at, and adds a row
\* only for a coordinate that its log buys or mints; the committed rows are
\* never removed and keep their created_at over commits and rollbacks
C27_CellCreatedOnce ==
  /\ [][ pc = "events" =>
            /\ keepsCells(tx', tx)
            /\ \A k \in DOMAIN tx'.pixel_blocks \ DOMAIN tx.pixel_blocks :
                 createsCell(events[evIdx], k) ]_vars
  /\ [][ keepsCells(db', db) ]_vars

\* the Buy by Bob of cell (1, 2), which Alice held since the genesis block,
\* has been committed: the row has its created_at and the timestamp of the Buy
C27_Witness ==
  /\ hist.outcome = "committed"
  /\ \E i \in 1..Len(events) : events[i].transactionHash = "0xs2"
  /\ <<1, 2>> \in DOMAIN hist.pre.pixel_blocks
  /\ db.pixel_blocks[<<1, 2>>].current_owner = Bob
  /\ db.pixel_blocks[<<1, 2>>].created_at = ARBITRUM_NOVA_GENESIS_BLOCK
  /\ db.pixel_blocks[<<1, 2>>].timestamp = LastBlock
  /\ db.pixel_blocks[<<1, 2>>].created_at = hist.pre.pixel_blocks[<<1, 2>>].created_at

\* the watermark of the tables d: the greatest block_number of its events
\* rows is w
isWatermark(d, w) ==
  /\ \E r \in d.events : r.block_number = w
  /\ \A r \in d.events : r.block_number <= w

\* C28: over the passes, those cut short by a failure of the provider or of
\* the database included, every committed events row stays committed and the
\* watermark (the greatest committed block_number) never decreases
C28_CommittedProgressKept ==
  [][ /\ db.events \subseteq db'.events
      /\ \A w \in {r.block_number : r \in db.events} :
           isWatermark(db, w) => \E r \in db'.events : r.block_number >= w ]_vars

\* the second pass, which started over from the default block because the
\* watermark query failed, has been cut short by a rollback; the events rows
\* that the first pass committed, up to block genesis + 10, are all there
C28_Witness ==
  /\ passes = 2 /\ pc = "idle"
  /\ ~hist.queryOk
  /\ hist.outcome = "rolledBack" /\ hist.raised
  /\ Cardinality(db.events) >= 4
  /\ isWatermark(db, ARBITRUM_NOVA_GENESIS_BLOCK + 10)

\* the events row of log ev in the tables d
eventRow(d, ev) ==
  CHOOSE r \in d.events : /\ r.transaction_hash = ev.transactionHash
                          /\ r.log_index = ev.logIndex

\* C29: the fetch of the timestamps never ends the sub-range: it goes on to
\* its transaction, with the wall clock as the timestamp of each block whose
\* getBlock threw and the timestamp of the chain for every other block; when
\* the sub-range commits, the events rows that it added carry these
\* timestamps
C29_TimestampFallbackPerBlock ==
  /\ [][ pc = "timestamps" =>
            /\ pc' = "begin"
            /\ DOMAIN blockTimestamps' = uniqueBlockNumbers
            /\ \A bn \in uniqueBlockNumbers :
                 blockTimestamps'[bn] =
                   IF bn \in hist'.tsFailed THEN WallClock ELSE BlockTime(bn) ]_vars
  /\ [] ( hist.outcome = "committed" =>
             \A i \in 1..Len(events) :
               ~hasEventRow(hist.pre, events[i]) =>
                 eventRow(db, events[i]).timestamp =
                   IF events[i].blockNumber \in hist.tsFailed
                   THEN WallClock ELSE BlockTime(events[i].blockNumber) )

\* the sub-range of the blocks genesis and genesis + 1 has committed after
\* getBlock threw for the block genesis + 1 only: the events row of the
\* Update of that block has the wall clock, the rows of the genesis block
\* the timestamp of their block
C29_Witness ==
  /\ hist.outcome = "committed"
  /\ hist.tsFailed = {ARBITRUM_NOVA_GENESIS_BLOCK + 1}
  /\ Len(events) = 3
  /\ hist.pre.events = {}
  /\ eventRow(db, events[3]).timestamp = WallClock
  /\ eventRow(db, events[1]).timestamp = BlockTime(ARBITRUM_NOVA_GENESIS_BLOCK)
  /\ eventRow(db, events[2]).timestamp = BlockTime(ARBITRUM_NOVA_GENESIS_BLOCK)

\* C30: the step of a sub-range whose blocks hold no log changes no table,
\* committed or of a transaction, and opens no transaction: the loop goes to
\* the next sub-range or the pass ends; the watermark is what it was
C30_EmptySubRangeIsNoOp ==
  [][ (/\ pc = "query"
       /\ queryFilter(startBlock, Min(startBlock + batchSize - 1, currentBlock)) = <<>>) =>
        /\ db' = db /\ tx' = tx
        /\ events' = <<>>
        /\ pc' \in {"query", "idle"}
        /\ pc' = "query" <=> startBlock + batchSize <= currentBlock
        /\ startBlock' = startBlock + batchSize
        /\ getLastProcessedBlock(db', TRUE) = getLastProcessedBlock(db, TRUE) ]_vars

\* the second pass found the watermark at the block genesis + 11, fetched
\* the one block after it, which holds no log, and ended: the tables are
\* those of the end of the first pass
C30_Witness ==
  /\ passes = 2 /\ pc = "idle"
  /\ hist.queryOk /\ hist.lastBlock = ARBITRUM_NOVA_GENESIS_BLOCK + 11
  /\ currentBlock = LastBlock
  /\ startBlock = hist.lastBlock + 1 + batchSize
  /\ events = <<>>
  /\ hist.fetchFailed = {}
  /\ isWatermark(db, ARBITRUM_NOVA_GENESIS_BLOCK + 11)

\* line 57, endBlock of the sub-range the for loop stands at
subRangeEnd == Min(startBlock + batchSize - 1, currentBlock)

historyRowsOf(t, ev) ==
  {i \in 1..Len(t.pixel_block_owners) :
     t.pixel_block_owners[i].transaction_hash = ev.transactionHash}
  \cup {-i : i \in {j \in 1..Len(t.pixel_block_uri_history) :
     t.pixel_block_uri_history[j].transaction_hash = ev.transactionHash}}

\* every row of the history tables of t comes with an events row of its
\* chain transaction and block
historyHasEvents(t) ==
  \A h \in {t.pixel_block_owners[i] : i \in 1..Len(t.pixel_block_owners)} \cup
           {[x |-> u.x, y |-> u.y, owner |-> u.owner, timestamp |-> u.timestamp,
             transaction_hash |-> u.transaction_hash, block_number |-> u.block_number] :
              u \in {t.pixel_block_uri_history[i] :
                       i \in 1..Len(t.pixel_block_uri_history)}} :
    \E r \in t.events : /\ r.transaction_hash = h.transaction_hash
                        /\ r.block_number = h.block_number

\* C32: the sub-ranges of a pass follow one another in ascending block order
\* and at most one transaction is open at a time (outside BEGIN .. COMMIT or
\* ROLLBACK nothing is uncommitted, and BEGIN is sent only then); in the
\* open transaction the logs are handled in the order queryFilter gave them
\* (the logs before the turn have their events row, the new logs from the
\* turn on have none and their chain transactions have written no history
\* row), every events row the transaction wrote is of a block of the
\* sub-range, and every history row has an events row of its chain
\* transaction in the same tables
C32_SequentialInProviderOrder ==
  /\ [](~txOpen => tx = db)
  /\ [](pc \in {"events", "commit"} =>
          \A j \in 1..Len(events) :
            /\ j < evIdx => hasEventRow(tx, events[j])
            /\ (j >= evIdx /\ ~hasEventRow(hist.pre, events[j])) =>
                 /\ ~hasEventRow(tx, events[j])
                 /\ (\A k \in 1..(evIdx - 1) :
                       events[k].transactionHash # events[j].transactionHash) =>
                      historyRowsOf(tx, events[j]) = historyRowsOf(hist.pre, events[j]))
  /\ [](txOpen =>
          /\ \A r \in tx.events \ hist.pre.events :
               startBlock <= r.block_number /\ r.block_number <= subRangeEnd
          /\ historyHasEvents(tx))
  /\ [](historyHasEvents(db))
  /\ [][ /\ pc # "idle" => startBlock' >= startBlock
         /\ (pc = "events" /\ pc' = "events") => evIdx' = evIdx + 1
         /\ (~txOpen /\ txOpen') => (pc = "begin" /\ tx' = db /\ evIdx' = 1) ]_vars

\* the transaction of the first sub-range has handled the mint, the first of
\* its three logs: the events row of the mint and its OwnershipRecord are in
\* the transaction, no row of the two logs after it is, nothing is committed
C32_Witness ==
  /\ pc = "events" /\ evIdx = 2 /\ Len(events) = 3
  /\ db = EmptyDb
  /\ hasEventRow(tx, events[1])
  /\ historyRowsOf(tx, events[1]) = {1}
  /\ ~hasEventRow(tx, events[2]) /\ ~hasEventRow(tx, events[3])

\* C33: an automatic rotation (the cursor moves and forceProviderSwitch has
\* never been called) is made only by a call whose provider, the one its last
\* MAX_RETRIES attempts failed on, is the active endpoint: no call that
\* retried on an endpoint that was active before moves the cursor away from
\* an endpoint it has not tried
C33_RotationOnlyByCallOnActiveEndpoint ==
  [][ (currentProviderIndex' # currentProviderIndex /\ forced' = 0) =>
        \A c \in Calls :
          calls'[c] # calls[c] =>
            /\ calls[c].cur = currentProviderIndex
            /\ calls[c].tried[currentProviderIndex] >= MAX_RETRIES ]_vars

\* the pixel_block_owners rows of cell k in t, in insertion order
ownersOf(t, k) == SelectSeq(t.pixel_block_owners, LAMBDA r : <<r.x, r.y>> = k)

\* every pixel_blocks row of t that has pixel_block_owners rows has the
\* owner of the last of them as current_owner
ownerIsLastRecord(t) ==
  \A k \in DOMAIN t.pixel_blocks :
    Len(ownersOf(t, k)) > 0 =>
      t.pixel_blocks[k].current_owner = ownersOf(t, k)[Len(ownersOf(t, k))].owner

\* C34: in the committed tables, and in the open transaction between two
\* logs, the current_owner of every cell with an OwnershipRecord is the owner
\* of the OwnershipRecord appended last for its coordinate, whatever logs
\* were applied and whatever was rolled back
C34_OwnerIsLastOwnershipRecord ==
  /\ ownerIsLastRecord(db)
  /\ pc \in {"events", "commit"} => ownerIsLastRecord(tx)

\* the regular Transfer of cell (1, 2) from Alice to Bob has committed with
\* the Buy of another cell: the cell is Bob's and its last record names Bob,
\* after the records of Alice
C34_Witness ==
  /\ hist.outcome = "committed"
  /\ hist.pre = SeedTables[2]
  /\ \E i \in 1..2 : events[i] = TestLogs[4]
  /\ db.pixel_blocks[<<1, 2>>].current_owner = Bob
  /\ Len(ownersOf(db, <<1, 2>>)) = 3
  /\ ownersOf(db, <<1, 2>>)[2].owner = Alice

\* the logs of the chain transaction of log ev whose mutator appends a
\* history row
mutatingLogsOf(ev) ==
  {j \in 1..Len(ChainLog) :
     /\ ChainLog[j].transactionHash = ev.transactionHash
     /\ ChainLog[j].event \in {"Buy", "Transfer", "Update"}}

\* C35: over the passes the mutator of a log runs in at most one committed
\* transaction: the committed history tables hold, for every chain
\* transaction, at most one row for each of its logs, also after a pass in
\* which the query of getLastProcessedBlock failed
C35_MutatorCommittedAtMostOnce ==
  \A i \in 1..Len(ChainLog) :
    Cardinality(historyRowsOf(db, ChainLog[i])) <= Cardinality(mutatingLogsOf(ChainLog[i]))

\* log ev is in the committed event log and its mutation is applied: it has
\* its events row and, when its mutator appends history rows, its chain
\* transaction has some
committedWithMutation(d, ev) ==
  /\ hasEventRow(d, ev)
  /\ ev.event \in {"Buy", "Transfer", "Update"} => historyRowsOf(d, ev) # {}

\* C36: once a pass has run from its start to its end without a failing
\* provider call and without a failing statement, every log of a block up
\* to the head that the pass read is committed with its mutation applied,
\* the logs of sub-ranges that earlier passes skipped or rolled back included
C36_FailureFreePassCatchesUp ==
  (pc = "idle" /\ passes > 0 /\ hist.clean) =>
    \A i \in 1..Len(ChainLog) :
      ChainLog[i].blockNumber <= hist.head => committedWithMutation(db, ChainLog[i])

\* C37: no client is released twice and none is left unreleased: the client
\* of line 86 is held exactly from BEGIN to the end of COMMIT or ROLLBACK
\* (also of a ROLLBACK that throws) and is released once the sub-range is
\* left, the variable client refers to a client exactly while one is held,
\* a pass connects only when the client before is released, and the client
\* of getLastProcessedBlock is released before the pass goes on (there is
\* none only when pool.connect threw, which makes the query fail)
C37_ClientsReleasedOnce ==
  /\ [](client.last # "releasedTwice" /\ client.watermark \in {"none", "released"})
  /\ [](txOpen <=> client.last = "held")
  /\ [](client.ref = "client" <=> client.last = "held")
  /\ []((passes > 0 /\ hist.queryOk) => client.watermark = "released")
  /\ [][ (pc = "begin" /\ pc' \in {"events", "rollback"}) =>
           /\ client.last \in {"none", "released"}
           /\ client'.last = "held" ]_vars

\* a ROLLBACK threw in the first of two sub-ranges and the outer catch ended
\* the pass: the client of the sub-range is released, once
C37_Witness ==
  /\ pc = "idle" /\ passes > 0
  /\ hist.outcome = "rolledBack"
  /\ startBlock + batchSize <= currentBlock
  /\ client.last = "released" /\ client.ref = "null"

\* the uri of cell k in t, '' when t has no such cell
storedUri(t, k) == IF k \in DOMAIN t.pixel_blocks THEN t.pixel_blocks[k].uri ELSE ""

\* C38: when contract.tokenURI throws in the handler of a Buy, of a BatchBuy
\* or of a mint Transfer and no statement fails, the turn ends without a
\* throw and the sub-range is not rolled back for it; the Buy leaves its
\* cell with the empty uri whatever uri was stored, the mint leaves the
\* stored uri
C38_UriReadFailureNotRaised ==
  [][ (/\ pc = "events"
       /\ hist'.step.tokenUri = UriReadFails
       /\ hist'.step.insertOk /\ hist'.step.fail = "none") =>
        LET ev == events[evIdx]
        IN /\ ~hist'.raised
           /\ pc' \in {"events", "commit"}
           /\ evIdx' = evIdx + 1
           /\ ev.event = "Buy" =>
                storedUri(tx', <<ev.args.x, ev.args.y>>) = ""
           /\ ev.event = "BatchBuy" =>
                \A i \in 1..Len(ev.args.x) :
                  storedUri(tx', <<ev.args.x[i], ev.args.y[i]>>) = ""
           /\ ev.event = "Transfer" =>
                LET xy == convertTokenIdToXY(ev.args.tokenId)
                IN storedUri(tx', <<xy.x, xy.y>>) = storedUri(tx, <<xy.x, xy.y>>) ]_vars

\* the Buy of cell (1, 2) by Bob has been processed with a tokenURI that
\* threw, on a cell stored with a uri: the turn ended, the uri is empty
C38_Witness ==
  /\ pc = "events" /\ evIdx = 2
  /\ events[1].transactionHash = "0xs2" /\ events[1].event = "Buy"
  /\ hist.step.tokenUri = UriReadFails
  /\ ~hist.raised
  /\ storedUri(hist.pre, <<1, 2>>) # ""
  /\ storedUri(tx, <<1, 2>>) = ""
  /\ tx.pixel_blocks[<<1, 2>>].current_owner = Bob

\* the pixel_blocks rows of t other than the row of cell k
otherCells(t, k) == [j \in (DOMAIN t.pixel_blocks) \ {k} |-> t.pixel_blocks[j]]

\* C39: a turn that processed a regular Transfer sets current_owner (to the
\* receiver) and the timestamps of the cell of the token and leaves its uri
\* and created_at; a turn that processed an Update whose updater is the
\* current_owner of the cell sets uri (to the uri of the log) and the
\* timestamps and leaves current_owner and created_at; in both the rows of
\* all other cells are what they were and no cell is added or removed
C39_TransferAndUpdateFrame ==
  [][ /\ (/\ turnDone
          /\ events[evIdx].event = "Transfer"
          /\ events[evIdx].args.from # AddressZero) =>
           LET ev == events[evIdx]
               xy == convertTokenIdToXY(ev.args.tokenId)
               k == <<xy.x, xy.y>>
           IN /\ k \in DOMAIN tx.pixel_blocks
              /\ tx'.pixel_blocks =
                   [tx.pixel_blocks EXCEPT
                      ![k] = [@ EXCEPT !.current_owner = ev.args.to,
                                       !.timestamp = blockTimestamps[ev.blockNumber],
                                       !.updated_at = tx'.pixel_blocks[k].updated_at]]
              /\ tx'.pixel_blocks[k].uri = tx.pixel_blocks[k].uri
              /\ tx'.pixel_blocks[k].created_at = tx.pixel_blocks[k].created_at
              /\ otherCells(tx', k) = otherCells(tx, k)
      /\ (/\ turnDone
          /\ events[evIdx].event = "Update"
          /\ decodeUpdate(events[evIdx]).ok
          /\ ~unmatchedUpdate(events[evIdx], tx)) =>
           LET ev == events[evIdx]
               d == decodeUpdate(ev)
               k == <<d.xCoord, d.yCoord>>
           IN /\ tx'.pixel_blocks =
                   [tx.pixel_blocks EXCEPT
                      ![k] = [@ EXCEPT !.uri = d.uri,
                                       !.timestamp = blockTimestamps[ev.blockNumber],
                                       !.updated_at = tx'.pixel_blocks[k].updated_at]]
              /\ tx'.pixel_blocks[k].current_owner = tx.pixel_blocks[k].current_owner
              /\ tx'.pixel_blocks[k].created_at = tx.pixel_blocks[k].created_at
              /\ otherCells(tx', k) = otherCells(tx, k) ]_vars

\* the Transfer of cell (1, 2) from Alice to Bob has been processed after
\* the Buy of cell (7, 8), on a cell stored with a uri: the cell is Bob's,
\* its uri and created_at are those stored, the cell (7, 8) is untouched
C39_Witness ==
  /\ pc = "commit" /\ evIdx = 3
  /\ events[2] = TestLogs[4] /\ events[1] = OtherLog
  /\ storedUri(hist.pre, <<1, 2>>) # ""
  /\ tx.pixel_blocks[<<1, 2>>].current_owner = Bob
  /\ tx.pixel_blocks[<<1, 2>>].uri = hist.pre.pixel_blocks[<<1, 2>>].uri
  /\ tx.pixel_blocks[<<1, 2>>].created_at = hist.pre.pixel_blocks[<<1, 2>>].created_at
  /\ tx.pixel_blocks[<<1, 2>>].timestamp = BlockTime(LastBlock)
  /\ tx.pixel_blocks[<<7, 8>>].current_owner = Alice

\* C40: the pixel update routes (single and batch) change the uri of a cell
\* only when the requesting address equals the current_owner of the cell in
\* the committed state at the moment the transaction of the route commits,
\* under every interleaving with a sub-range transaction of the scanner that
\* transfers the same cell; and when the ownership check fails for any listed
\* pixel (404 or 403) no pixel_blocks row and no pixel_block_uri_history row
\* is written.
C40_RouteWritesOnlyForCommittedOwner ==
  [][ /\ (route.pc = "commit" /\ route'.status = 200) =>
           \A k \in cellsOf(route.pixels) :
             db'.pixel_blocks[k].uri # db.pixel_blocks[k].uri =>
               toLowerCase(db.pixel_blocks[k].current_owner) = toLowerCase(route.address)
      /\ (route.pc = "check" /\ route'.status \in {403, 404}) =>
           /\ route'.pc = "done"
           /\ db'.pixel_blocks = db.pixel_blocks
           /\ db'.pixel_block_uri_history = db.pixel_block_uri_history ]_vars

\* the mutators applied in chain order to the logs of ChainLog from index i
\* on whose block is at most w, with the time of their block and no URI read
RECURSIVE replay(_, _, _)
replay(t, i, w) ==
  IF i > Len(ChainLog) \/ ChainLog[i].blockNumber > w THEN t
  ELSE LET ev == ChainLog[i]
           ts == BlockTime(ev.blockNumber)
       IN replay(processEventLog(insertEvent(t, ev, ts), ev, ts, "", "none").db,
                 i + 1, w)

\* what of the mirror does not depend on the URI reads and on the clock:
\* the logs recorded, the owner of every cell, and the history rows
mirror(d) ==
  [events |-> {<<r.transaction_hash, r.log_index>> : r \in d.events},
   owners |-> [k \in DOMAIN d.pixel_blocks |-> d.pixel_blocks[k].current_owner],
   ownerHistory |-> [i \in 1..Len(d.pixel_block_owners) |->
                       <<d.pixel_block_owners[i].transaction_hash,
                         d.pixel_block_owners[i].owner>>],
   uriHistory |-> [i \in 1..Len(d.pixel_block_uri_history) |->
                     <<d.pixel_block_uri_history[i].transaction_hash,
                       d.pixel_block_uri_history[i].uri>>]]

\* C2: between scan passes the committed mirror is the replay of the chain
\* up to the watermark, and every log at or below the watermark is recorded
C2_MirrorIsReplayToWatermark ==
  pc = "idle" =>
    LET w == getLastProcessedBlock(db, TRUE)
    IN /\ mirror(db) = mirror(replay(EmptyDb, 1, w))
       /\ \A i \in 1..Len(ChainLog) :
            ChainLog[i].blockNumber <= w => hasEventRow(db, ChainLog[i])

\* C3: the watermark stays below the start of every sub-range whose fetch
\* failed in the current pass, so that the next pass starts at or before it
C3_FailedFetchHoldsWatermark ==
  \A s \in hist.fetchFailed : getLastProcessedBlock(db, TRUE) < s

\* C4: a log has at most one events row, and no committed transaction has
\* changed an owner or a uri of pixel_blocks by processing once more a log
\* that already had its events row
C4_ReprocessingIsIdempotent ==
  /\ \A r1, r2 \in db.events :
       (r1.transaction_hash = r2.transaction_hash /\ r1.log_index = r2.log_index)
         => r1 = r2
  /\ ~hist.dupCommitted

====
